---- MODULE Spec2Model ----
(***************************************************************************)
(* Model of the mesaic query back end:                                     *)
(*   - AIQueryEngine   (src/python/ai/query_engine.py)                     *)
(*   - OpenAIIntegration.process_query / _process_response                 *)
(*                     (src/python/ai/openai_integration.py)               *)
(*   - QueryProcessor  (src/python/ai/query_processor.py)                  *)
(*   - SignalProcessor (src/python/data/signal_processor.py)               *)
(*                                                                         *)
(* Text is modelled at two levels.  Queries and signal names are sequences *)
(* of characters, so that Python's `in` (substring) and str.lower() are    *)
(* computed.  Assistant replies are sequences of tokens (prose, code       *)
(* fences, JSON objects, malformed brace text, JSON scalars), so that      *)
(* json.loads, the fence stripping and the brace regex are computed.       *)
(* Numbers with a fractional part are kept in hundredths (0.1 is 10).      *)
(***************************************************************************)
EXTENDS Integers, Sequences, FiniteSets, TLC

VARIABLES
    epc,        \* AIQueryEngine.process_query: "idle", "prompted", "answered", "done"
    query,      \* the query of the current engine request (sequence of words)
    available,  \* available_signals of the current engine request
    behaviour,  \* what the assistant call did for this request
    answer,     \* response_data.get('answer', '') (sequence of tokens)
    result,     \* the AIQueryResult returned (or the exception propagated)
    vpc,        \* a call of _validate_operations: "idle", "done"
    vin,        \* operations handed to _validate_operations, and the signal list
    vout,       \* what _validate_operations did with them
    cpc,        \* a call of execute_operation: "idle", "done"
    cin,        \* the request handed to SignalProcessor.execute_operation
    cout,       \* its OperationResult or the error it raised
    ppc,        \* QueryProcessor.process_query: "idle", "done"
    pin,        \* its query, data and context
    pout        \* its answer or the exception it raised

vars == <<epc, query, available, behaviour, answer, result,
          vpc, vin, vout, cpc, cin, cout, ppc, pin, pout>>

engineVars == <<epc, query, available, behaviour, answer, result>>
validatorVars == <<vpc, vin, vout>>
catalogVars == <<cpc, cin, cout>>
processorVars == <<ppc, pin, pout>>

-----------------------------------------------------------------------------
(* Bounds                                                                  *)

MaxWords == 2       \* words in an engine query
MaxValOps == 2      \* operations in one list handed to the validator
MaxSamples == 2     \* samples of one signal

-----------------------------------------------------------------------------
(* Text: characters, str.lower(), substring test, words                    *)

Lower(c) ==
    CASE c = "R" -> "r"
      [] c = "P" -> "p"
      [] c = "M" -> "m"
      [] c = "S" -> "s"
      [] OTHER -> c

LowerText(t) == [i \in 1..Len(t) |-> Lower(t[i])]

\* Python `p in t` for strings
Contains(t, p) ==
    \E i \in 0..(Len(t) - Len(p)) : \A k \in 1..Len(p) : t[i + k] = p[k]

Spell(w) ==
    CASE w = "add" -> <<"a", "d", "d">>
      [] w = "filter" -> <<"f", "i", "l", "t", "e", "r">>
      [] w = "scale" -> <<"s", "c", "a", "l", "e">>
      [] w = "derivative" -> <<"d", "e", "r", "i", "v", "a", "t", "i", "v", "e">>
      [] w = "show" -> <<"s", "h", "o", "w">>
      [] w = "engineRPM" -> <<"e", "n", "g", "i", "n", "e", "R", "P", "M">>
      [] w = "vehicleSpeed" -> <<"v", "e", "h", "i", "c", "l", "e", "S", "p", "e", "e", "d">>
      [] w = "compare" -> <<"c", "o", "m", "p", "a", "r", "e">>
      [] w = "cursor" -> <<"c", "u", "r", "s", "o", "r">>
      [] w = "maximum" -> <<"m", "a", "x", "i", "m", "u", "m">>
      [] w = "rpm" -> <<"r", "p", "m">>
      [] w = "speed" -> <<"s", "p", "e", "e", "d">>
      [] w = "minimum" -> <<"m", "i", "n", "i", "m", "u", "m">>
      [] w = "average" -> <<"a", "v", "e", "r", "a", "g", "e">>
      [] w = "correlation" -> <<"c", "o", "r", "r", "e", "l", "a", "t", "i", "o", "n">>
      [] w = "anomaly" -> <<"a", "n", "o", "m", "a", "l", "y">>
      [] w = "time" -> <<"t", "i", "m", "e">>
      [] w = "at" -> <<"a", "t">>
      [] w = "1" -> <<"1">>
      [] w = "s" -> <<"s">>
      [] w = "subtract" -> <<"s", "u", "b", "t", "r", "a", "c", "t">>
      [] w = "multiply" -> <<"m", "u", "l", "t", "i", "p", "l", "y">>
      [] w = "divide" -> <<"d", "i", "v", "i", "d", "e">>
      [] w = "abs" -> <<"a", "b", "s">>
      [] w = "fft" -> <<"f", "f", "t">>
      [] w = "stats" -> <<"s", "t", "a", "t", "s">>
      [] w = "bogus" -> <<"b", "o", "g", "u", "s">>
      [] w = "ghost" -> <<"g", "h", "o", "s", "t">>
      [] w = "weird" -> <<"w", "e", "i", "r", "d">>
      [] w = "lowpass" -> <<"l", "o", "w", "p", "a", "s", "s">>
      [] w = "highpass" -> <<"h", "i", "g", "h", "p", "a", "s", "s">>
      [] w = "bandpass" -> <<"b", "a", "n", "d", "p", "a", "s", "s">>
      [] w = "bandstop" -> <<"b", "a", "n", "d", "s", "t", "o", "p">>
      [] w = "binary operation" -> <<"b", "i", "n", "a", "r", "y", " ",
                                     "o", "p", "e", "r", "a", "t", "i", "o", "n">>
      [] w = "operation" -> <<"o", "p", "e", "r", "a", "t", "i", "o", "n">>
      [] OTHER -> <<"?">>

RECURSIVE JoinWords(_)
\* " ".join(words), as characters
JoinWords(ws) ==
    IF ws = <<>> THEN <<>>
    ELSE IF Len(ws) = 1 THEN Spell(ws[1])
    ELSE Spell(ws[1]) \o <<" ">> \o JoinWords(Tail(ws))

SeqsUpTo(S, n) == UNION {[1..k -> S] : k \in 0..n}

-----------------------------------------------------------------------------
(* Values: JSON / Python values of operation parameters                    *)

IntVal(n) == [t |-> "int", n |-> n, s |-> "", l |-> <<>>]
StrVal(s) == [t |-> "str", n |-> 0, s |-> s, l |-> <<>>]
ListVal(l) == [t |-> "list", n |-> 0, s |-> "", l |-> l]
NoneVal == [t |-> "none", n |-> 0, s |-> "", l |-> <<>>]

EmptyDict == [k \in {} |-> NoneVal]

\* Optional[Dict[str, Any]]: None, or a dict
NoneParams == [none |-> TRUE, kv |-> EmptyDict]
DictParams(kv) == [none |-> FALSE, kv |-> kv]

\* dict.get(key, default)
Get(kv, key, default) == IF key \in DOMAIN kv THEN kv[key] ELSE default

\* d[key] = value
Put(kv, key, value) ==
    [k \in (DOMAIN kv) \cup {key} |-> IF k = key THEN value ELSE kv[k]]

\* str(value) inside an f-string
ShowVal(v) ==
    CASE v.t = "int" ->
           (CASE v.n = 0 -> <<"0">> [] v.n = 1 -> <<"1">> [] v.n = 2 -> <<"2">>
              [] v.n = 3 -> <<"3">> [] OTHER -> <<"9">>)
      [] v.t = "str" -> Spell(v.s)
      [] v.t = "list" -> <<"[", "]">>
      [] OTHER -> <<"N", "o", "n", "e">>

\* class SignalOperation
SignalOperation(operation, signals, parameters, output_name) ==
    [operation |-> operation, signals |-> signals,
     parameters |-> parameters, output_name |-> output_name]

-----------------------------------------------------------------------------
(* AIQueryEngine._validate_operations                                      *)

valid_operations ==
    <<"add", "subtract", "multiply", "divide",
      "abs", "scale", "derivative", "filter", "fft", "stats">>

BinaryOps == {"add", "subtract", "multiply", "divide"}
UnaryOps == {"abs", "scale", "derivative", "filter", "fft", "stats"}
FilterTypes == {"lowpass", "highpass", "bandpass", "bandstop"}

InSeq(x, s) == \E i \in 1..Len(s) : s[i] = x

TxtRequires2 ==
    <<" ", "o", "p", "e", "r", "a", "t", "i", "o", "n", " ", "r", "e", "q",
      "u", "i", "r", "e", "s", " ", "e", "x", "a", "c", "t", "l", "y", " ",
      "2", " ", "s", "i", "g", "n", "a", "l", "s">>

TxtRequires1 ==
    <<" ", "o", "p", "e", "r", "a", "t", "i", "o", "n", " ", "r", "e", "q",
      "u", "i", "r", "e", "s", " ", "e", "x", "a", "c", "t", "l", "y", " ",
      "1", " ", "s", "i", "g", "n", "a", "l">>

TxtInvalidFilterType ==
    <<"I", "n", "v", "a", "l", "i", "d", " ", "f", "i", "l", "t", "e", "r",
      " ", "t", "y", "p", "e", ":", " ">>

TxtInvalidOperation ==
    <<"I", "n", "v", "a", "l", "i", "d", " ", "o", "p", "e", "r", "a", "t",
      "i", "o", "n", " ", "t", "y", "p", "e", ":", " ">>

TxtSignalNotFound ==
    <<"S", "i", "g", "n", "a", "l", " ", "n", "o", "t", " ", "f", "o", "u",
      "n", "d", ":", " ">>

TxtDerivativeOrder ==
    <<"D", "e", "r", "i", "v", "a", "t", "i", "v", "e", " ", "o", "r", "d",
      "e", "r", " ", "m", "u", "s", "t", " ", "b", "e", " ", "1", " ", "o",
      "r", " ", "2", ",", " ", "g", "o", "t", " ">>

\* a ValueError of the validator: the check that raised it and str(e)
ValueErr(kind, msg) == [kind |-> kind, msg |-> msg]
NoErr == ValueErr("", <<>>)

\* the default cutoff pair [0.1, 0.4], in hundredths
DefaultBandCutoff == ListVal(<<10, 40>>)

\* cutoff_freq is a list or tuple of length 2
IsPair(v) == v.t = "list" /\ Len(v.l) = 2

\* variant: the signal names of an operation are not checked
FirstMissingUnchecked(signals, available_signals) == 0

\* first signal of the list that is not available
FirstMissing(signals, available_signals) ==
    LET idx == {i \in 1..Len(signals) : ~InSeq(signals[i], available_signals)}
    IN  IF idx = {} THEN 0 ELSE CHOOSE i \in idx : \A j \in idx : i <= j

\* variant: the signal count is checked before the signal names
ValidateOneArityFirst(op, available_signals) ==
    LET missing == FirstMissing(op.signals, available_signals)
        kv0 == IF op.parameters.none THEN EmptyDict ELSE op.parameters.kv
        op1 == [op EXCEPT !.parameters = DictParams(kv0)]
        order == Get(kv0, "order", IntVal(1))
        filter_type == Get(kv0, "filter_type", StrVal("lowpass"))
        cutoff_freq == Get(kv0, "cutoff_freq", NoneVal)
    IN  IF ~InSeq(op.operation, valid_operations)
        THEN [err |-> ValueErr("UnknownOperation",
                               TxtInvalidOperation \o Spell(op.operation)),
              op |-> op]
        ELSE IF op.operation \in BinaryOps /\ Len(op.signals) # 2
        THEN [err |-> ValueErr("ArityMismatch", Spell(op.operation) \o TxtRequires2),
              op |-> op1]
        ELSE IF op.operation \in UnaryOps /\ Len(op.signals) # 1
        THEN [err |-> ValueErr("ArityMismatch", Spell(op.operation) \o TxtRequires1),
              op |-> op1]
        ELSE IF missing # 0
        THEN [err |-> ValueErr("SignalNotFound",
                               TxtSignalNotFound \o Spell(op.signals[missing])),
              op |-> op]
        ELSE IF op.operation = "derivative"
                /\ ~(order.t = "int" /\ order.n \in {1, 2})
        THEN [err |-> ValueErr("InvalidParameter",
                               TxtDerivativeOrder \o ShowVal(order)),
              op |-> op1]
        ELSE IF op.operation = "filter"
                /\ ~(filter_type.t = "str" /\ filter_type.s \in FilterTypes)
        THEN [err |-> ValueErr("InvalidParameter",
                               TxtInvalidFilterType \o ShowVal(filter_type)),
              op |-> op1]
        ELSE IF op.operation = "filter"
                /\ filter_type.s \in {"bandpass", "bandstop"}
                /\ ~IsPair(cutoff_freq)
        THEN [err |-> NoErr,
              op |-> [op EXCEPT !.parameters =
                         DictParams(Put(kv0, "cutoff_freq", DefaultBandCutoff))]]
        ELSE [err |-> NoErr, op |-> op1]

\* variant: the filter type read with its default is written back
ValidateOneWritingFilterType(op, available_signals) ==
    LET missing == FirstMissing(op.signals, available_signals)
        kv0 == IF op.parameters.none THEN EmptyDict ELSE op.parameters.kv
        op1 == [op EXCEPT !.parameters = DictParams(kv0)]
        order == Get(kv0, "order", IntVal(1))
        filter_type == Get(kv0, "filter_type", StrVal("lowpass"))
        cutoff_freq == Get(kv0, "cutoff_freq", NoneVal)
    IN  IF ~InSeq(op.operation, valid_operations)
        THEN [err |-> ValueErr("UnknownOperation",
                               TxtInvalidOperation \o Spell(op.operation)),
              op |-> op]
        ELSE IF missing # 0
        THEN [err |-> ValueErr("SignalNotFound",
                               TxtSignalNotFound \o Spell(op.signals[missing])),
              op |-> op]
        ELSE IF op.operation \in BinaryOps /\ Len(op.signals) # 2
        THEN [err |-> ValueErr("ArityMismatch", Spell(op.operation) \o TxtRequires2),
              op |-> op1]
        ELSE IF op.operation \in UnaryOps /\ Len(op.signals) # 1
        THEN [err |-> ValueErr("ArityMismatch", Spell(op.operation) \o TxtRequires1),
              op |-> op1]
        ELSE IF op.operation = "derivative"
                /\ ~(order.t = "int" /\ order.n \in {1, 2})
        THEN [err |-> ValueErr("InvalidParameter",
                               TxtDerivativeOrder \o ShowVal(order)),
              op |-> op1]
        ELSE IF op.operation = "filter"
                /\ ~(filter_type.t = "str" /\ filter_type.s \in FilterTypes)
        THEN [err |-> ValueErr("InvalidParameter",
                               TxtInvalidFilterType \o ShowVal(filter_type)),
              op |-> op1]
        ELSE IF op.operation = "filter"
                /\ filter_type.s \in {"bandpass", "bandstop"}
                /\ ~IsPair(cutoff_freq)
        THEN [err |-> NoErr,
              op |-> [op EXCEPT !.parameters =
                         DictParams(Put(kv0, "cutoff_freq", DefaultBandCutoff))]]
        ELSE IF op.operation = "filter"
        THEN [err |-> NoErr,
              op |-> [op EXCEPT !.parameters =
                         DictParams(Put(kv0, "filter_type", filter_type))]]
        ELSE [err |-> NoErr, op |-> op1]

\* the body of the loop of _validate_operations for one operation:
\* the error raised (or none) and the operation as the loop leaves it
ValidateOne(op, available_signals) ==
    LET missing == FirstMissing(op.signals, available_signals)
        kv0 == IF op.parameters.none THEN EmptyDict ELSE op.parameters.kv
        op1 == [op EXCEPT !.parameters = DictParams(kv0)]
        order == Get(kv0, "order", IntVal(1))
        filter_type == Get(kv0, "filter_type", StrVal("lowpass"))
        cutoff_freq == Get(kv0, "cutoff_freq", NoneVal)
    IN  IF ~InSeq(op.operation, valid_operations)
        THEN [err |-> ValueErr("UnknownOperation",
                               TxtInvalidOperation \o Spell(op.operation)),
              op |-> op]
        ELSE IF missing # 0
        THEN [err |-> ValueErr("SignalNotFound",
                               TxtSignalNotFound \o Spell(op.signals[missing])),
              op |-> op]
        ELSE IF op.operation \in BinaryOps /\ Len(op.signals) # 2
        THEN [err |-> ValueErr("ArityMismatch", Spell(op.operation) \o TxtRequires2),
              op |-> op1]
        ELSE IF op.operation \in UnaryOps /\ Len(op.signals) # 1
        THEN [err |-> ValueErr("ArityMismatch", Spell(op.operation) \o TxtRequires1),
              op |-> op1]
        ELSE IF op.operation = "derivative"
                /\ ~(order.t = "int" /\ order.n \in {1, 2})
        THEN [err |-> ValueErr("InvalidParameter",
                               TxtDerivativeOrder \o ShowVal(order)),
              op |-> op1]
        ELSE IF op.operation = "filter"
                /\ ~(filter_type.t = "str" /\ filter_type.s \in FilterTypes)
        THEN [err |-> ValueErr("InvalidParameter",
                               TxtInvalidFilterType \o ShowVal(filter_type)),
              op |-> op1]
        ELSE IF op.operation = "filter"
                /\ filter_type.s \in {"bandpass", "bandstop"}
                /\ ~IsPair(cutoff_freq)
        THEN [err |-> NoErr,
              op |-> [op EXCEPT !.parameters =
                         DictParams(Put(kv0, "cutoff_freq", DefaultBandCutoff))]]
        ELSE [err |-> NoErr, op |-> op1]

RECURSIVE _validate_operations(_, _)
\* the error raised (none: kind ""), the index of the operation that raised
\* it, and the operations as validation leaves them (it mutates in place)
_validate_operations(operations, available_signals) ==
    IF operations = <<>>
    THEN [err |-> NoErr, at |-> 0, ops |-> <<>>]
    ELSE LET r == ValidateOne(Head(operations), available_signals)
         IN  IF r.err.kind # ""
             THEN [err |-> r.err, at |-> 1, ops |-> <<r.op>> \o Tail(operations)]
             ELSE LET rest == _validate_operations(Tail(operations), available_signals)
                  IN  [err |-> rest.err,
                       at |-> IF rest.at = 0 THEN 0 ELSE rest.at + 1,
                       ops |-> <<r.op>> \o rest.ops]

-----------------------------------------------------------------------------
(* Results of the engine                                                   *)

\* The explanation strings are f-strings; an explanation is kept as the
\* template that produced it (kind) and the values interpolated into it.
Explanation(kind, op, sig, sigs, text) ==
    [kind |-> kind, op |-> op, sig |-> sig, sigs |-> sigs, text |-> text]

\* class AIQueryResult
AIQueryResult(operations, explanation) ==
    [operations |-> operations, explanation |-> explanation]

NoValue == AIQueryResult(<<>>, Explanation("", "", "", <<>>, ""))

\* how a call ended: it returned a value, or it raised
Returned(value, stage) ==
    [raised |-> "", err |-> NoErr, value |-> value, stage |-> stage]
Raised(type, err, stage) ==
    [raised |-> type, err |-> err, value |-> NoValue, stage |-> stage]

\* [s for s in available_signals if s.lower() in query.lower()]
Mentioned(q, available_signals) ==
    LET lowered == LowerText(q)
        Test(s) == Contains(lowered, LowerText(Spell(s)))
    IN  SelectSeq(available_signals, Test)

\* first element of the candidate list that occurs in the text, "" for None
FirstIn(candidates, text) ==
    LET idx == {i \in 1..Len(candidates) : Contains(text, Spell(candidates[i]))}
    IN  IF idx = {} THEN ""
        ELSE candidates[CHOOSE i \in idx : \A j \in idx : i <= j]

Others(available_signals, sig) ==
    LET Test(s) == s # sig IN SelectSeq(available_signals, Test)

-----------------------------------------------------------------------------
(* Clarification handlers                                                  *)

_handle_incomplete_filter_query(q, available_signals) ==
    LET found == Mentioned(q, available_signals)
    IN  IF found # <<>>
        THEN AIQueryResult(
                 <<SignalOperation("filter", <<found[1]>>, DictParams(EmptyDict),
                                   <<"filtered_", found[1]>>)>>,
                 Explanation("filter_need_type_and_cutoff", "filter", found[1], <<>>, ""))
        ELSE AIQueryResult(<<>>,
                 Explanation("filter_need_signal", "filter", "", available_signals, ""))

\* variant: the handler completes the operation with another available signal
BinaryHandlerGuessingSecondSignal(q, available_signals, error_str) ==
    LET named == FirstIn(<<"add", "subtract", "multiply", "divide">>, error_str)
        operation_type == IF named = "" THEN "binary operation" ELSE named
        found_signals == Mentioned(q, available_signals)
        others == Others(available_signals, found_signals[1])
    IN  IF Len(found_signals) = 1
        THEN AIQueryResult(
                 <<SignalOperation(operation_type,
                                   IF others = <<>> THEN found_signals
                                   ELSE <<found_signals[1], others[1]>>,
                                   DictParams(EmptyDict),
                                   <<operation_type, "_", found_signals[1]>>)>>,
                 Explanation("binary_need_one_more", operation_type, found_signals[1],
                             others, ""))
        ELSE AIQueryResult(<<>>,
                 Explanation("binary_need_two", operation_type, "", available_signals, ""))

\* variant: a partial operation is returned whenever a signal is found
BinaryHandlerFirstFound(q, available_signals, error_str) ==
    LET named == FirstIn(<<"add", "subtract", "multiply", "divide">>, error_str)
        operation_type == IF named = "" THEN "binary operation" ELSE named
        found_signals == Mentioned(q, available_signals)
    IN  IF Len(found_signals) >= 1
        THEN AIQueryResult(
                 <<SignalOperation(operation_type, <<found_signals[1]>>,
                                   DictParams(EmptyDict),
                                   <<operation_type, "_", found_signals[1]>>)>>,
                 Explanation("binary_need_one_more", operation_type, found_signals[1],
                             Others(available_signals, found_signals[1]), ""))
        ELSE AIQueryResult(<<>>,
                 Explanation("binary_need_two", operation_type, "", available_signals, ""))

_handle_incomplete_binary_operation(q, available_signals, error_str) ==
    LET named == FirstIn(<<"add", "subtract", "multiply", "divide">>, error_str)
        operation_type == IF named = "" THEN "binary operation" ELSE named
        found_signals == Mentioned(q, available_signals)
    IN  IF Len(found_signals) = 1
        THEN AIQueryResult(
                 <<SignalOperation(operation_type, found_signals, DictParams(EmptyDict),
                                   <<operation_type, "_", found_signals[1]>>)>>,
                 Explanation("binary_need_one_more", operation_type, found_signals[1],
                             Others(available_signals, found_signals[1]), ""))
        ELSE AIQueryResult(<<>>,
                 Explanation("binary_need_two", operation_type, "", available_signals, ""))

_handle_incomplete_unary_operation(q, available_signals, error_str) ==
    LET named == FirstIn(<<"abs", "scale", "derivative", "filter", "fft", "stats">>,
                         error_str)
        operation_type == IF named = "" THEN "operation" ELSE named
        found == Mentioned(q, available_signals)
        kind == CASE operation_type = "scale" -> "unary_need_factor"
                  [] operation_type = "derivative" -> "unary_need_order"
                  [] operation_type = "fft" -> "unary_need_sample_rate"
                  [] OTHER -> "unary_need_more_info"
    IN  IF found # <<>>
        THEN AIQueryResult(
                 <<SignalOperation(operation_type, <<found[1]>>, DictParams(EmptyDict),
                                   <<operation_type, "_", found[1]>>)>>,
                 Explanation(kind, operation_type, found[1], <<>>, ""))
        ELSE AIQueryResult(<<>>,
                 Explanation("unary_need_signal", operation_type, "",
                             available_signals, ""))

_handle_incomplete_scale_operation(q, available_signals, mentioned_signals) ==
    IF Len(mentioned_signals) = 1
    THEN AIQueryResult(
             <<SignalOperation("scale", <<mentioned_signals[1]>>, DictParams(EmptyDict),
                               <<"scaled_", mentioned_signals[1]>>)>>,
             Explanation("scale_need_factor", "scale", mentioned_signals[1], <<>>, ""))
    ELSE AIQueryResult(<<>>,
             Explanation("scale_need_signal", "scale", "", available_signals, ""))

-----------------------------------------------------------------------------
(* AIQueryEngine._fallback_parsing                                         *)

operation_keywords(op) ==
    CASE op = "add" -> <<<<"a", "d", "d">>,
        <<"s", "u", "m">>,
        <<"p", "l", "u", "s">>,
        <<"c", "o", "m", "b", "i", "n", "e">>>>
      [] op = "subtract" -> <<<<"s", "u", "b", "t", "r", "a", "c", "t">>,
        <<"m", "i", "n", "u", "s">>,
        <<"d", "i", "f", "f", "e", "r", "e", "n", "c", "e">>,
        <<"t", "a", "k", "e", " ", "a", "w", "a", "y">>>>
      [] op = "multiply" -> <<<<"m", "u", "l", "t", "i", "p", "l", "y">>,
        <<"p", "r", "o", "d", "u", "c", "t">>,
        <<"t", "i", "m", "e", "s">>>>
      [] op = "divide" -> <<<<"d", "i", "v", "i", "d", "e">>,
        <<"r", "a", "t", "i", "o">>,
        <<"q", "u", "o", "t", "i", "e", "n", "t">>>>
      [] op = "abs" -> <<<<"a", "b", "s", "o", "l", "u", "t", "e">>,
        <<"a", "b", "s">>,
        <<"m", "a", "g", "n", "i", "t", "u", "d", "e">>>>
      [] op = "scale" -> <<<<"s", "c", "a", "l", "e">>,
        <<"m", "u", "l", "t", "i", "p", "l", "y", " ", "b", "y">>,
        <<"f", "a", "c", "t", "o", "r">>>>
      [] op = "derivative" -> <<<<"d", "e", "r", "i", "v", "a", "t", "i", "v", "e">>,
        <<"r", "a", "t", "e", " ", "o", "f", " ", "c", "h", "a", "n", "g", "e">>,
        <<"s", "l", "o", "p", "e">>>>
      [] op = "filter" -> <<<<"f", "i", "l", "t", "e", "r">>,
        <<"s", "m", "o", "o", "t", "h">>,
        <<"l", "o", "w", "p", "a", "s", "s">>,
        <<"h", "i", "g", "h", "p", "a", "s", "s">>,
        <<"b", "a", "n", "d", "p", "a", "s", "s">>,
        <<"b", "a", "n", "d", "s", "t", "o", "p">>>>
      [] op = "fft" -> <<<<"f", "f", "t">>,
        <<"f", "o", "u", "r", "i", "e", "r">>,
        <<"f", "r", "e", "q", "u", "e", "n", "c", "y">>,
        <<"s", "p", "e", "c", "t", "r", "u", "m">>>>
      [] op = "stats" -> <<<<"s", "t", "a", "t", "s">>,
        <<"s", "t", "a", "t", "i", "s", "t", "i", "c", "s">>,
        <<"m", "e", "a", "n">>,
        <<"a", "v", "e", "r", "a", "g", "e">>,
        <<"s", "t", "d">>,
        <<"m", "i", "n">>,
        <<"m", "a", "x">>>>

\* the nested loop over operation_keywords.items(): the first operation, in
\* the order of the dict, one of whose keywords occurs in query.lower()
KeywordOperation(q) ==
    LET lowered == LowerText(q)
        Hit(op) == \E k \in 1..Len(operation_keywords(op)) :
                       Contains(lowered, operation_keywords(op)[k])
        idx == {i \in 1..Len(valid_operations) : Hit(valid_operations[i])}
    IN  IF idx = {} THEN ""
        ELSE valid_operations[CHOOSE i \in idx : \A j \in idx : i <= j]

_fallback_parsing(response, q, available_signals) ==
    LET operation_type == KeywordOperation(q)
        mentioned_signals == Mentioned(q, available_signals)
    IN  IF operation_type \in BinaryOps
        THEN Returned(_handle_incomplete_binary_operation(q, available_signals,
                          Spell(operation_type) \o TxtRequires2), "fallback")
        ELSE IF operation_type \in {"abs", "derivative", "fft", "stats"}
        THEN Returned(_handle_incomplete_unary_operation(q, available_signals,
                          Spell(operation_type) \o TxtRequires1), "fallback")
        ELSE IF operation_type = "scale"
        THEN Returned(_handle_incomplete_scale_operation(q, available_signals,
                          mentioned_signals), "fallback")
        ELSE IF operation_type = "filter"
        THEN Returned(_handle_incomplete_filter_query(q, available_signals), "fallback")
        ELSE IF mentioned_signals # <<>>
        THEN \* the example names available_signals[0], or [1] when [0] is the
             \* mentioned signal
             IF available_signals[1] = mentioned_signals[1] /\ Len(available_signals) < 2
             THEN Raised("IndexError", NoErr, "fallback")
             ELSE Returned(AIQueryResult(<<>>,
                      Explanation("signals_without_operation", "", mentioned_signals[1],
                                  mentioned_signals, "")), "fallback")
        ELSE \* the examples name available_signals[0] and available_signals[1]
             IF Len(available_signals) < 2
             THEN Raised("IndexError", NoErr, "fallback")
             ELSE Returned(AIQueryResult(<<>>,
                      Explanation("generic_help", "", "", available_signals, "")),
                      "fallback")

-----------------------------------------------------------------------------
(* Reply text: tokens, json.loads, fence stripping, brace search           *)

\* a JSON object: which of the keys "operations" and "explanation" it has.
\* An operation of the object may lack output_name, a required field of
\* SignalOperation.
JsonObject(has_ops, operations, has_expl, explanation) ==
    [has_ops |-> has_ops, operations |-> operations,
     has_expl |-> has_expl, explanation |-> explanation]

EmptyObject == JsonObject(FALSE, <<>>, FALSE, "")

JsonOperation(operation, signals, parameters, has_output_name) ==
    [operation |-> operation, signals |-> signals, parameters |-> parameters,
     has_output_name |-> has_output_name, output_name |-> <<"out">>]

Prose == [k |-> "prose", v |-> EmptyObject]          \* text without braces or fences
FenceJson == [k |-> "fence_json", v |-> EmptyObject] \* ```json
Fence == [k |-> "fence", v |-> EmptyObject]          \* ```
Bad == [k |-> "bad", v |-> EmptyObject]              \* { ... } that is not JSON
Scalar == [k |-> "scalar", v |-> EmptyObject]        \* a JSON value that is no object
Obj(v) == [k |-> "obj", v |-> v]                     \* the text of a JSON object

\* json.loads(text): succeeds when the text is one JSON value
JsonLoads(text) ==
    IF Len(text) = 1 /\ text[1].k \in {"obj", "scalar"}
    THEN [ok |-> TRUE, is_dict |-> text[1].k = "obj", v |-> text[1].v]
    ELSE [ok |-> FALSE, is_dict |-> FALSE, v |-> EmptyObject]

\* index of the first token at or after position from whose kind is in kinds, 0 if none
FirstTok(text, kinds, from) ==
    LET idx == {i \in from..Len(text) : text[i].k \in kinds}
    IN  IF idx = {} THEN 0 ELSE CHOOSE i \in idx : \A j \in idx : i <= j

LastTok(text, kinds) ==
    LET idx == {i \in 1..Len(text) : text[i].k \in kinds}
    IN  IF idx = {} THEN 0 ELSE CHOOSE i \in idx : \A j \in idx : i >= j

\* json_str.split("```json")[1].split("```")[0], or json_str.split("```")[1]
StripFence(text) ==
    LET fj == FirstTok(text, {"fence_json"}, 1)
        f == FirstTok(text, {"fence"}, 1)
    IN  IF fj # 0
        THEN LET close == FirstTok(text, {"fence", "fence_json"}, fj + 1)
             IN  SubSeq(text, fj + 1, IF close = 0 THEN Len(text) ELSE close - 1)
        ELSE IF f # 0
        THEN LET close == FirstTok(text, {"fence"}, f + 1)
             IN  SubSeq(text, f + 1, IF close = 0 THEN Len(text) ELSE close - 1)
        ELSE text

\* variant: re.fullmatch, the whole text has to be the braces
BraceFullMatch(text) ==
    LET first == FirstTok(text, {"obj", "bad"}, 1)
        last == LastTok(text, {"obj", "bad"})
    IN  [found |-> first = 1 /\ last = Len(text),
         text |-> IF first = 1 /\ last = Len(text) THEN text ELSE <<>>]

\* re.search(r'\{.*\}', response, re.DOTALL): from the first brace to the last
BraceMatch(text) ==
    LET first == FirstTok(text, {"obj", "bad"}, 1)
        last == LastTok(text, {"obj", "bad"})
    IN  [found |-> first # 0,
         text |-> IF first = 0 THEN <<>> ELSE SubSeq(text, first, last)]

\* every operation of the object has the fields SignalOperation requires
SchemaOk(obj) == \A i \in 1..Len(obj.operations) : obj.operations[i].has_output_name

DefaultExplanation == "I've processed your request."

\* AIQueryResult(operations=result_dict.get("operations", []),
\*               explanation=result_dict.get("explanation", "I've processed ..."))
FromDict(obj) ==
    AIQueryResult(
        [i \in 1..Len(obj.operations) |->
            SignalOperation(obj.operations[i].operation, obj.operations[i].signals,
                            obj.operations[i].parameters, obj.operations[i].output_name)],
        Explanation("assistant", "", "", <<>>,
                    IF obj.has_expl THEN obj.explanation ELSE DefaultExplanation))

-----------------------------------------------------------------------------
(* AIQueryEngine._parse_response                                           *)

\* the part of both try blocks after json.loads: build the result, validate
\* it, return it.  ok is FALSE when that raised (AttributeError for a value
\* that is no dict, ValidationError for a bad schema, ValueError from the
\* validator).
BuildAndValidate(loaded, available_signals) ==
    IF ~loaded.is_dict \/ ~SchemaOk(loaded.v)
    THEN [ok |-> FALSE, value |-> NoValue,
          err |-> ValueErr(IF loaded.is_dict THEN "ValidationError" ELSE "AttributeError",
                           <<>>)]
    ELSE LET built == FromDict(loaded.v)
             checked == _validate_operations(built.operations, available_signals)
         IN  [ok |-> checked.err.kind = "",
              value |-> AIQueryResult(checked.ops, built.explanation),
              err |-> checked.err]

_parse_response(response, q, available_signals) ==
    LET json_str == StripFence(response)
        loaded == JsonLoads(json_str)
        match == BraceMatch(response)
        extracted == JsonLoads(match.text)
        direct == BuildAndValidate(loaded, available_signals)
        salvaged == BuildAndValidate(extracted, available_signals)
    IN  IF loaded.ok
        THEN IF direct.ok
             THEN Returned(direct.value, IF json_str = response THEN "direct" ELSE "fenced")
             ELSE \* except Exception
                  _fallback_parsing(response, q, available_signals)
        ELSE \* except json.JSONDecodeError
             IF match.found /\ extracted.ok /\ salvaged.ok
             THEN Returned(salvaged.value, "salvage")
             ELSE _fallback_parsing(response, q, available_signals)

-----------------------------------------------------------------------------
(* OpenAIIntegration.process_query, as AIQueryEngine uses it               *)

\* what the assistant call did:
\*   no_key             OPENAI_API_KEY is not set
\*   request_exception  requests.post raised (timeout, connection error);
\*                      text is str(e)
\*   http_error         status code is not 200; text is str(e), the status
\*                      line followed by the response body
\*   no_choices         status 200, a body without choices
\*   content            status 200, text is choices[0].message.content
Behaviour(kind, text) == [kind |-> kind, text |-> text]

\* _process_response for a message with content and no tool calls: the
\* parsed content when it is JSON, else the content as the answer
_process_response(content) ==
    LET parsed == JsonLoads(content)
    IN  IF content # <<>> /\ parsed.ok
        THEN [is_dict |-> parsed.is_dict, has_answer |-> FALSE, answer |-> <<>>]
        ELSE [is_dict |-> TRUE, has_answer |-> TRUE, answer |-> content]

\* the dict OpenAIIntegration.process_query returns
OpenAI_process_query(b) ==
    CASE b.kind = "no_key" ->
           [has_answer |-> TRUE, answer |-> <<Prose>>]
      [] b.kind = "request_exception" ->
           [has_answer |-> TRUE, answer |-> <<Prose>> \o b.text]
      [] b.kind = "http_error" ->
           \* "An error occurred ...: OpenAI API error: <status> - <body>"
           [has_answer |-> TRUE, answer |-> <<Prose>> \o b.text]
      [] b.kind = "no_choices" ->
           \* the answer quotes the prompt, whose JSON template has braces
           [has_answer |-> TRUE, answer |-> <<Prose, Bad, Prose>>]
      [] OTHER ->
           LET r == _process_response(b.text)
           IN  IF r.is_dict
               THEN [has_answer |-> r.has_answer, answer |-> r.answer]
               ELSE \* 'metadata' not in result raises TypeError; except Exception
                    [has_answer |-> TRUE, answer |-> <<Prose>>]

-----------------------------------------------------------------------------
(* AIQueryEngine.process_query                                             *)

TxtFilterTypeKey ==
    <<"f", "i", "l", "t", "e", "r", "_", "t", "y", "p", "e">>
TxtRequires2Core == Tail(TxtRequires2)
TxtRequires1Core == Tail(TxtRequires1)
TxtSignal1 == <<"s", "i", "g", "n", "a", "l", "1">>
TxtSignal2 == <<"s", "i", "g", "n", "a", "l", "2">>
TxtSignal == <<"s", "i", "g", "n", "a", "l">>
TxtFactor == <<"f", "a", "c", "t", "o", "r">>

\* except ValueError as e (lines 76-98)
HandleValueError(error_str, q, available_signals) ==
    IF Contains(error_str, SubSeq(TxtInvalidFilterType, 1, Len(TxtInvalidFilterType) - 2))
       \/ Contains(error_str, TxtFilterTypeKey)
    THEN Returned(_handle_incomplete_filter_query(q, available_signals), "value_error")
    ELSE IF Contains(error_str, TxtRequires2Core)
            \/ Contains(error_str, TxtSignal1) \/ Contains(error_str, TxtSignal2)
    THEN Returned(_handle_incomplete_binary_operation(q, available_signals, error_str),
                  "value_error")
    ELSE IF Contains(error_str, TxtRequires1Core) \/ Contains(error_str, TxtSignal)
    THEN Returned(_handle_incomplete_unary_operation(q, available_signals, error_str),
                  "value_error")
    ELSE IF Contains(error_str, TxtFactor)
            /\ (Contains(LowerText(q), Spell("scale"))
                \/ Contains(LowerText(q), Spell("multiply")))
    THEN Returned(_handle_incomplete_scale_operation(q, available_signals,
                      Mentioned(q, available_signals)), "value_error")
    ELSE Returned(AIQueryResult(<<>>,
                      Explanation("need_more_information", "", "", <<>>, "")),
                  "value_error")

\* except Exception as e (lines 99-124)
HandleException(q, available_signals) ==
    LET operation_type == FirstIn(valid_operations, LowerText(q))
        mentioned_signals == Mentioned(q, available_signals)
    IN  IF operation_type # "" /\ mentioned_signals # <<>>
        THEN IF operation_type \in BinaryOps
             THEN Returned(_handle_incomplete_binary_operation(q, available_signals,
                               Spell(operation_type) \o TxtRequires2), "exception")
             ELSE IF operation_type \in {"abs", "derivative", "fft", "stats"}
             THEN Returned(_handle_incomplete_unary_operation(q, available_signals,
                               Spell(operation_type) \o TxtRequires1), "exception")
             ELSE IF operation_type = "scale"
             THEN Returned(_handle_incomplete_scale_operation(q, available_signals,
                               mentioned_signals), "exception")
             ELSE Returned(_handle_incomplete_filter_query(q, available_signals),
                           "exception")
        ELSE Returned(AIQueryResult(<<>>,
                          Explanation("could_not_understand", "", "", <<>>, "")),
                      "exception")

\* variant: the try block without its except clauses
ProcessQueryWithoutExcept(response, q, available_signals) ==
    _parse_response(response, q, available_signals)

\* the try block and its two except clauses, from the answer on
process_query(response, q, available_signals) ==
    LET r == _parse_response(response, q, available_signals)
    IN  IF r.raised = "" THEN r
        ELSE IF r.raised = "ValueError"
        THEN HandleValueError(r.err.msg, q, available_signals)
        ELSE HandleException(q, available_signals)

-----------------------------------------------------------------------------
(* Inputs of the engine runs                                               *)

SignalNames == {"engineRPM", "vehicleSpeed"}

EngineWords == {"add", "filter", "scale", "derivative"} \cup SignalNames

\* queries that name a binary operation and both of its operands
OperandQueries ==
    {<<"add", "engineRPM", "vehicleSpeed">>, <<"engineRPM", "add", "vehicleSpeed">>}

Queries == SeqsUpTo(EngineWords, MaxWords) \cup OperandQueries

\* lists of distinct available signals: none, one, two
SignalLists ==
    {l \in SeqsUpTo(SignalNames, Cardinality(SignalNames)) :
        \A i, j \in 1..Len(l) : i # j => l[i] # l[j]}

OpAddTwo == JsonOperation("add", <<"engineRPM", "vehicleSpeed">>, NoneParams, TRUE)
OpAddOne == JsonOperation("add", <<"engineRPM">>, NoneParams, TRUE)
OpScaleNone == JsonOperation("scale", <<>>, DictParams(EmptyDict), TRUE)
OpScaleNoFactor == JsonOperation("scale", <<"engineRPM">>, DictParams(EmptyDict), TRUE)
OpFilterWeird ==
    JsonOperation("filter", <<"engineRPM">>,
                  DictParams([filter_type |-> StrVal("weird")]), TRUE)
OpFilterBandOne ==
    JsonOperation("filter", <<"engineRPM">>,
                  DictParams([filter_type |-> StrVal("bandpass"),
                              cutoff_freq |-> ListVal(<<20>>)]), TRUE)
OpDerivativeThree ==
    JsonOperation("derivative", <<"engineRPM">>, DictParams([order |-> IntVal(3)]), TRUE)
OpAbsGhost == JsonOperation("abs", <<"ghost">>, NoneParams, TRUE)
OpAbsNoName == JsonOperation("abs", <<"engineRPM">>, NoneParams, FALSE)

ReplyOperationLists ==
    {<<>>, <<OpAddTwo>>, <<OpAddOne>>, <<OpScaleNone>>, <<OpScaleNoFactor>>,
     <<OpFilterWeird>>, <<OpFilterBandOne>>, <<OpDerivativeThree>>, <<OpAbsGhost>>,
     <<OpAbsNoName>>, <<OpAddTwo, OpAddOne>>}

\* {"operations": [...], "explanation": "..."} objects, and {"error": {...}}
RecordObjects == {JsonObject(TRUE, ops, TRUE, "E") : ops \in ReplyOperationLists}
ErrorObject == EmptyObject

\* the ways a reply presents an object
Presentations(o) ==
    {<<Obj(o)>>,
     <<FenceJson, Obj(o), Fence>>,
     <<Prose, Fence, Obj(o), Fence, Prose>>,
     <<Obj(o), Prose>>,
     <<Prose, Obj(o)>>}

Contents ==
    UNION {Presentations(o) : o \in RecordObjects}
    \cup {<<>>, <<Prose>>, <<Scalar>>, <<Bad>>, <<FenceJson, Bad, Fence>>,
          <<Obj(ErrorObject)>>}
    \cup {<<Obj(o), Prose, Obj(o)>> : o \in {JsonObject(TRUE, <<OpAddTwo>>, TRUE, "E")}}

Failures ==
    {Behaviour("no_key", <<>>),
     Behaviour("request_exception", <<Prose>>),
     Behaviour("no_choices", <<>>),
     Behaviour("http_error", <<Prose>>),
     Behaviour("http_error", <<Prose, Obj(ErrorObject)>>),
     Behaviour("http_error", <<Prose, Bad>>)}

Behaviours == Failures \cup {Behaviour("content", c) : c \in Contents}

\* the query as the characters of its words
QueryText(words) == JoinWords(words)

-----------------------------------------------------------------------------
(* SignalProcessor.execute_operation, compute_derivative, filter_signal    *)

\* the keys of self.operations
CatalogOperations ==
    {"add", "subtract", "multiply", "divide", "abs", "scale",
     "derivative", "filter", "fft", "stats"}

\* a result dict, or the ValueError raised instead
OperationResult(data, scale, operation, inputs, parameters) ==
    [raised |-> "", reason |-> "", data |-> data, scale |-> scale,
     operation |-> operation, inputs |-> inputs, parameters |-> parameters]

OperationError(reason) ==
    [raised |-> "ValueError", reason |-> reason, data |-> <<>>, scale |-> 1,
     operation |-> "", inputs |-> <<>>, parameters |-> EmptyDict]

NoOperationResult == OperationResult(<<>>, 1, "", <<>>, EmptyDict)

\* the signal argument names a signal of signals_data
SignalGiven(signals_data, signal) ==
    signal.t = "str" /\ signal.s \in DOMAIN signals_data

\* twice np.gradient(x) for a 1-D array of at least two samples: one-sided
\* differences at the ends, central differences (x[i+1] - x[i-1]) / 2 inside
Gradient2(x) ==
    [i \in 1..Len(x) |->
        IF i = 1 THEN 2 * (x[2] - x[1])
        ELSE IF i = Len(x) THEN 2 * (x[Len(x)] - x[Len(x) - 1])
        ELSE x[i + 1] - x[i - 1]]

\* variant: every order other than 1 is computed as the second derivative
DerivativeOfAnyOrder(signals_data, kwargs) ==
    LET signal == Get(kwargs, "signal", NoneVal)
        order == Get(kwargs, "order", IntVal(1))
        data == signals_data[signal.s]
    IN  IF ~(DOMAIN kwargs \subseteq {"signal", "order"})
        THEN OperationError("unexpected keyword argument")
        ELSE IF signal.t = "none"
        THEN OperationError("Must specify a signal")
        ELSE IF ~SignalGiven(signals_data, signal)
        THEN OperationError("Signal not found")
        ELSE IF Len(data) < 2
        THEN OperationError("array too small for np.gradient")
        ELSE IF order.t = "int" /\ order.n = 1
        THEN OperationResult([i \in 1..Len(data) |-> 2 * Gradient2(data)[i]], 4,
                             "derivative", <<signal.s>>, [order |-> order])
        ELSE OperationResult(Gradient2(Gradient2(data)), 4,
                             "derivative", <<signal.s>>, [order |-> order])

\* variant: the second derivative is the second difference of the samples
DerivativeBySecondDifference(signals_data, kwargs) ==
    LET signal == Get(kwargs, "signal", NoneVal)
        order == Get(kwargs, "order", IntVal(1))
        data == signals_data[signal.s]
    IN  IF ~(DOMAIN kwargs \subseteq {"signal", "order"})
        THEN OperationError("unexpected keyword argument")
        ELSE IF signal.t = "none"
        THEN OperationError("Must specify a signal")
        ELSE IF ~SignalGiven(signals_data, signal)
        THEN OperationError("Signal not found")
        ELSE IF ~(order.t = "int" /\ order.n \in {1, 2})
        THEN OperationError("Unsupported derivative order")
        ELSE IF Len(data) < 2
        THEN OperationError("array too small for np.gradient")
        ELSE IF order.n = 1
        THEN OperationResult([i \in 1..Len(data) |-> 2 * Gradient2(data)[i]], 4,
                             "derivative", <<signal.s>>, [order |-> order])
        ELSE OperationResult([i \in 1..Len(data) |->
                                 IF i = 1 \/ i = Len(data) THEN 0
                                 ELSE 4 * (data[i + 1] - 2 * data[i] + data[i - 1])], 4,
                             "derivative", <<signal.s>>, [order |-> order])

\* compute_derivative(signals_data, **kwargs); the data is in quarters
compute_derivative(signals_data, kwargs) ==
    LET signal == Get(kwargs, "signal", NoneVal)
        order == Get(kwargs, "order", IntVal(1))
        data == signals_data[signal.s]
    IN  IF ~(DOMAIN kwargs \subseteq {"signal", "order"})
        THEN OperationError("unexpected keyword argument")
        ELSE IF signal.t = "none"
        THEN OperationError("Must specify a signal")
        ELSE IF ~SignalGiven(signals_data, signal)
        THEN OperationError("Signal not found")
        ELSE IF ~(order.t = "int" /\ order.n \in {1, 2})
        THEN OperationError("Unsupported derivative order")
        ELSE IF Len(data) < 2
        THEN OperationError("array too small for np.gradient")
        ELSE IF order.n = 1
        THEN OperationResult([i \in 1..Len(data) |-> 2 * Gradient2(data)[i]], 4,
                             "derivative", <<signal.s>>, [order |-> order])
        ELSE OperationResult(Gradient2(Gradient2(data)), 4,
                             "derivative", <<signal.s>>, [order |-> order])

\* float(s) in hundredths for the numeric strings used here, -1 when float(s)
\* raises ValueError
FloatOf(s) == CASE s = "0.2" -> 20 [] s = "0.3" -> 30 [] OTHER -> -1

\* the default padlen of scipy's filtfilt, 3 * max(len(a), len(b)): butter
\* returns order + 1 coefficients for lowpass and highpass and 2 * order + 1 for
\* bandpass and bandstop; filtfilt raises ValueError unless the signal is longer
PadLen(filter_type, order) ==
    IF filter_type \in {"bandpass", "bandstop"} THEN 3 * (2 * order + 1)
    ELSE 3 * (order + 1)

\* filter_signal(signals_data, **kwargs).  The Butterworth design and the
\* forward-backward filtering are scipy's: the result keeps the resolved
\* parameters and no sample values.  A list is passed as the cutoff only
\* together with bandpass and bandstop.
filter_signal(signals_data, kwargs) ==
    LET signal == Get(kwargs, "signal", NoneVal)
        filter_type == Get(kwargs, "filter_type", StrVal("lowpass"))
        given == Get(kwargs, "cutoff_freq", IntVal(10))
        cutoff_freq == IF given.t = "str" THEN IntVal(FloatOf(given.s)) ELSE given
        order == Get(kwargs, "order", IntVal(4))
    IN  IF ~(DOMAIN kwargs \subseteq {"signal", "filter_type", "cutoff_freq", "order"})
        THEN OperationError("unexpected keyword argument")
        ELSE IF signal.t = "none"
        THEN OperationError("Must specify a signal to filter")
        ELSE IF ~SignalGiven(signals_data, signal)
        THEN OperationError("Signal not found")
        ELSE IF ~(filter_type.t = "str" /\ filter_type.s \in FilterTypes)
        THEN OperationError("Invalid filter type")
        ELSE IF given.t = "str" /\ FloatOf(given.s) < 0
        THEN OperationError("Invalid cutoff frequency")
        ELSE IF filter_type.s \in {"bandpass", "bandstop"} /\ ~IsPair(cutoff_freq)
        THEN OperationError("cutoff_freq must be a tuple (low, high)")
        ELSE IF cutoff_freq.t = "none"
        THEN OperationError("'NoneType' object is not iterable")
        ELSE IF Len(signals_data[signal.s]) <= PadLen(filter_type.s, order.n)
        THEN OperationError("input vector must be longer than padlen")
        ELSE OperationResult(<<>>, 1, "filter", <<signal.s>>,
                             [filter_type |-> filter_type, cutoff_freq |-> cutoff_freq,
                              order |-> order])

\* the replacement of a denominator by np.where(np.abs(data2) < 1e-10,
\* 1e-10, data2): the denominator is den times unit.  A sample is an integer
\* here, so its magnitude is below 1e-10 exactly when it is 0.
WhereUnguarded(b) == [den |-> b, unit |-> "1"]

Where(b) ==
    IF b = 0 THEN [den |-> 1, unit |-> "1e-10"] ELSE [den |-> b, unit |-> "1"]

\* an element of np.divide: the quotient num / (den * unit), which is NaN or
\* Inf when den is 0
Quotient(a, d) == [num |-> a, den |-> d.den, unit |-> d.unit]

\* variant: the operands of the subtraction are exchanged
ElementwiseSwapped(operation, a, b) ==
    CASE operation = "add" -> a + b
      [] operation = "subtract" -> b - a
      [] operation = "multiply" -> a * b
      [] OTHER -> Quotient(a, Where(b))

\* np.add, np.subtract, np.multiply, np.divide on one pair of elements
Elementwise(operation, a, b) ==
    CASE operation = "add" -> a + b
      [] operation = "subtract" -> a - b
      [] operation = "multiply" -> a * b
      [] OTHER -> Quotient(a, Where(b))

\* min(len(data1), len(data2))
min_length(data1, data2) == IF Len(data1) < Len(data2) THEN Len(data1) ELSE Len(data2)

\* the common body of add_signals, subtract_signals, multiply_signals and
\* divide_signals
BinarySignals(operation, signals_data, kwargs) ==
    LET signal1 == Get(kwargs, "signal1", NoneVal)
        signal2 == Get(kwargs, "signal2", NoneVal)
        data1 == signals_data[signal1.s]
        data2 == signals_data[signal2.s]
    IN  IF ~(DOMAIN kwargs \subseteq {"signal1", "signal2"})
        THEN OperationError("unexpected keyword argument")
        ELSE IF signal1.t = "none" \/ signal2.t = "none"
        THEN OperationError("Must specify two signals")
        ELSE IF ~SignalGiven(signals_data, signal1) \/ ~SignalGiven(signals_data, signal2)
        THEN OperationError("Signal not found")
        ELSE OperationResult(
                 [i \in 1..min_length(data1, data2) |->
                     Elementwise(operation, data1[i], data2[i])],
                 1, operation, <<signal1.s, signal2.s>>, EmptyDict)

add_signals(signals_data, kwargs) == BinarySignals("add", signals_data, kwargs)

subtract_signals(signals_data, kwargs) == BinarySignals("subtract", signals_data, kwargs)

multiply_signals(signals_data, kwargs) == BinarySignals("multiply", signals_data, kwargs)

divide_signals(signals_data, kwargs) == BinarySignals("divide", signals_data, kwargs)

RECURSIVE Total(_)
\* the sum of the samples
Total(data) == IF data = <<>> THEN 0 ELSE Head(data) + Total(Tail(data))

\* the sum of the squares of the samples
SquareTotal(data) == Total([i \in 1..Len(data) |-> data[i] * data[i]])

RECURSIVE Ascending(_)
\* the samples in ascending order
Ascending(data) ==
    IF data = <<>> THEN <<>>
    ELSE LET least == CHOOSE i \in 1..Len(data) : \A j \in 1..Len(data) : data[i] <= data[j]
         IN  <<data[least]>>
             \o Ascending(SubSeq(data, 1, least - 1) \o SubSeq(data, least + 1, Len(data)))

\* np.min(data)
Smallest(data) == CHOOSE x \in {data[i] : i \in 1..Len(data)} :
                     \A j \in 1..Len(data) : x <= data[j]

\* variant: the larger of the first and the last sample
LargestOfEnds(data) ==
    IF data[1] >= data[Len(data)] THEN data[1] ELSE data[Len(data)]

\* np.max(data)
Largest(data) == CHOOSE x \in {data[i] : i \in 1..Len(data)} :
                    \A j \in 1..Len(data) : data[j] <= x

\* np.median(data), as num / den
Median(data) ==
    LET sorted == Ascending(data)
        n == Len(data)
    IN  IF n % 2 = 1 THEN [num |-> sorted[(n + 1) \div 2], den |-> 1]
        ELSE [num |-> sorted[n \div 2] + sorted[n \div 2 + 1], den |-> 2]

\* the stats dict; mean and median are num / den, std and rms are kept as
\* their squares num / den
Statistics(data) ==
    LET n == Len(data)
    IN  [min |-> Smallest(data),
         max |-> Largest(data),
         mean |-> [num |-> Total(data), den |-> n],
         median |-> Median(data),
         std |-> [num |-> n * SquareTotal(data) - Total(data) * Total(data), den |-> n * n],
         rms |-> [num |-> SquareTotal(data), den |-> n]]

\* compute_statistics(signals_data, **kwargs): the result dict has a
\* statistics entry and returns the data as it was given
compute_statistics(signals_data, kwargs) ==
    LET signal == Get(kwargs, "signal", NoneVal)
        data == signals_data[signal.s]
    IN  IF ~(DOMAIN kwargs \subseteq {"signal"})
        THEN OperationError("unexpected keyword argument")
        ELSE IF signal.t = "none"
        THEN OperationError("Must specify a signal")
        ELSE IF ~SignalGiven(signals_data, signal)
        THEN OperationError("Signal not found")
        ELSE IF data = <<>>
        THEN OperationError("zero-size array to reduction operation")
        ELSE OperationResult(data, 1, "stats", <<signal.s>>, EmptyDict)
                @@ [statistics |-> Statistics(data)]

\* the operations of the catalog that are modelled
ModelledOperations ==
    {"add", "subtract", "multiply", "divide", "derivative", "filter", "stats"}

\* execute_operation(operation_type, signals_data, **parameters): every
\* exception of the operation is re-raised as ValueError
execute_operation(operation_type, signals_data, parameters) ==
    CASE operation_type \notin CatalogOperations -> OperationError("Unknown operation")
      [] operation_type = "add" -> add_signals(signals_data, parameters)
      [] operation_type = "subtract" -> subtract_signals(signals_data, parameters)
      [] operation_type = "multiply" -> multiply_signals(signals_data, parameters)
      [] operation_type = "divide" -> divide_signals(signals_data, parameters)
      [] operation_type = "derivative" -> compute_derivative(signals_data, parameters)
      [] operation_type = "stats" -> compute_statistics(signals_data, parameters)
      [] OTHER -> filter_signal(signals_data, parameters)

-----------------------------------------------------------------------------
(* Inputs of the validator and catalog runs                                *)

Op(operation, signals, parameters) ==
    SignalOperation(operation, signals, parameters, <<"out">>)

ParamsWeird == DictParams([filter_type |-> StrVal("weird")])
ParamsOrder(n) == DictParams([order |-> IntVal(n)])
ParamsBand(type, cutoff) ==
    DictParams([filter_type |-> StrVal(type), cutoff_freq |-> cutoff])

ValidatorOperations ==
    {Op("add", <<"engineRPM", "vehicleSpeed">>, NoneParams),
     Op("derivative", <<"engineRPM">>, ParamsOrder(2)),
     Op("derivative", <<"engineRPM">>, NoneParams),
     Op("filter", <<"engineRPM">>, NoneParams),
     Op("filter", <<"engineRPM">>, ParamsBand("bandpass", ListVal(<<20>>))),
     Op("filter", <<"engineRPM">>, ParamsBand("bandstop", IntVal(20))),
     Op("filter", <<"engineRPM">>, ParamsBand("bandpass", ListVal(<<10, 30>>))),
     Op("filter", <<"engineRPM">>, DictParams([filter_type |-> StrVal("bandstop")])),
     Op("scale", <<"engineRPM">>, DictParams(EmptyDict)),
     Op("fft", <<"engineRPM">>, NoneParams),
     Op("bogus", <<"engineRPM">>, NoneParams),
     Op("abs", <<"ghost">>, NoneParams),
     Op("add", <<"engineRPM">>, NoneParams),
     Op("derivative", <<"engineRPM">>, ParamsOrder(3)),
     Op("derivative", <<"engineRPM">>, ParamsOrder(0)),
     Op("derivative", <<"engineRPM">>, DictParams([order |-> StrVal("2")])),
     Op("filter", <<"engineRPM">>, ParamsWeird),
     Op("bogus", <<"ghost">>, ParamsOrder(3)),
     Op("add", <<"ghost">>, NoneParams),
     Op("derivative", <<"engineRPM", "vehicleSpeed">>, ParamsOrder(3)),
     Op("derivative", <<"ghost">>, ParamsOrder(3)),
     Op("filter", <<>>, ParamsWeird),
     Op("filter", <<"engineRPM", "ghost">>, ParamsBand("bandpass", ListVal(<<20>>)))}

ValidatorSignalLists == {<<"engineRPM", "vehicleSpeed">>, <<"engineRPM">>}

NoValidation == [operations |-> <<>>, available_signals |-> <<>>]

Samples == {0, 1, 3}

\* signals_data of a catalog run
LongSignals == {[i \in 1..n |-> 1] : n \in {16, 28}}

\* signals long enough to have inner samples
CurvedSignals == {<<0, 1, 3, 0>>, <<3, 0, 1, 1, 0>>}

CatalogData ==
    {[engineRPM |-> d] : d \in SeqsUpTo(Samples, MaxSamples) \cup LongSignals \cup CurvedSignals}

SignalArguments == {NoneVal, StrVal("engineRPM"), StrVal("ghost")}

DerivativeArguments ==
    {[signal |-> sg] : sg \in SignalArguments}
    \cup {[signal |-> sg, order |-> o] :
            sg \in SignalArguments,
            o \in {IntVal(0), IntVal(1), IntVal(2), IntVal(3), StrVal("2")}}
    \cup {[signal |-> StrVal("engineRPM"), factor |-> IntVal(2)]}

ScalarCutoffs == {IntVal(20), StrVal("0.3"), StrVal("weird"), NoneVal}

ListCutoffs == {ListVal(<<20>>), ListVal(<<10, 40>>), ListVal(<<10, 30, 40>>)}

BandTypes == {"bandpass", "bandstop"}

FilterArguments ==
    {[signal |-> StrVal("engineRPM")], [filter_type |-> StrVal("lowpass")]}
    \cup {[signal |-> StrVal("engineRPM"), filter_type |-> StrVal(ft)] :
            ft \in FilterTypes \cup {"weird"}}
    \cup {[signal |-> StrVal("engineRPM"), cutoff_freq |-> c] : c \in ScalarCutoffs}
    \cup {[signal |-> StrVal("engineRPM"), filter_type |-> StrVal(ft), cutoff_freq |-> c] :
            ft \in FilterTypes \cup {"weird"}, c \in ScalarCutoffs}
    \cup {[signal |-> StrVal("engineRPM"), filter_type |-> StrVal(ft), cutoff_freq |-> c] :
            ft \in BandTypes, c \in ListCutoffs}

\* signals_data of a run of a binary operation
PairData ==
    {[engineRPM |-> a, vehicleSpeed |-> b] :
        a \in SeqsUpTo(Samples, MaxSamples), b \in SeqsUpTo(Samples, MaxSamples)}

PairNames == {NoneVal, StrVal("engineRPM"), StrVal("vehicleSpeed"), StrVal("ghost")}

BinaryArguments ==
    {[signal1 |-> a, signal2 |-> b] : a \in PairNames, b \in PairNames}
    \cup {[signal1 |-> StrVal("engineRPM")], [signal |-> StrVal("engineRPM")]}

StatisticsArguments ==
    {[signal |-> sg] : sg \in SignalArguments}
    \cup {[signal |-> StrVal("engineRPM"), order |-> IntVal(1)]}

\* the data a request of the operation is run on
DataFor(operation_type) == IF operation_type \in BinaryOps THEN PairData ELSE CatalogData

Requests ==
    {[operation_type |-> "derivative", parameters |-> a] : a \in DerivativeArguments}
    \cup {[operation_type |-> "filter", parameters |-> a] : a \in FilterArguments}
    \cup {[operation_type |-> o, parameters |-> a] : o \in BinaryOps, a \in BinaryArguments}
    \cup {[operation_type |-> "stats", parameters |-> a] : a \in StatisticsArguments}
    \cup {[operation_type |-> "bogus", parameters |-> [signal |-> StrVal("engineRPM")]]}

NoRequest ==
    [operation_type |-> "", parameters |-> EmptyDict, signals_data |-> [engineRPM |-> <<>>]]

-----------------------------------------------------------------------------
(* QueryProcessor: routing, cursor queries, comparison queries             *)

\* self.keywords, in the order of the dict
KeywordTypes ==
    <<"max", "min", "avg", "correlation", "anomaly", "summary", "cursor", "compare">>

keywords(query_type) ==
    CASE query_type = "max" ->
           <<<<"m", "a", "x", "i", "m", "u", "m">>,
             <<"m", "a", "x">>,
             <<"h", "i", "g", "h", "e", "s", "t">>,
             <<"p", "e", "a", "k">>,
             <<"l", "a", "r", "g", "e", "s", "t">>>>
      [] query_type = "min" ->
           <<<<"m", "i", "n", "i", "m", "u", "m">>,
             <<"m", "i", "n">>,
             <<"l", "o", "w", "e", "s", "t">>,
             <<"s", "m", "a", "l", "l", "e", "s", "t">>>>
      [] query_type = "avg" ->
           <<<<"a", "v", "e", "r", "a", "g", "e">>,
             <<"m", "e", "a", "n">>,
             <<"t", "y", "p", "i", "c", "a", "l">>>>
      [] query_type = "correlation" ->
           <<<<"c", "o", "r", "r", "e", "l", "a", "t", "i", "o", "n">>,
             <<"r", "e", "l", "a", "t", "i", "o", "n", "s", "h", "i", "p">>,
             <<"c", "o", "n", "n", "e", "c", "t", "i", "o", "n">>,
             <<"r", "e", "l", "a", "t", "e", "d">>>>
      [] query_type = "anomaly" ->
           <<<<"a", "n", "o", "m", "a", "l", "y">>,
             <<"a", "n", "o", "m", "a", "l", "i", "e", "s">>,
             <<"u", "n", "u", "s", "u", "a", "l">>,
             <<"a", "b", "n", "o", "r", "m", "a", "l">>,
             <<"o", "u", "t", "l", "i", "e", "r">>>>
      [] query_type = "summary" ->
           <<<<"s", "u", "m", "m", "a", "r", "y">>,
             <<"o", "v", "e", "r", "v", "i", "e", "w">>,
             <<"d", "e", "s", "c", "r", "i", "b", "e">>>>
      [] query_type = "cursor" ->
           <<<<"c", "u", "r", "s", "o", "r">>,
             <<"p", "o", "s", "i", "t", "i", "o", "n">>,
             <<"m", "a", "r", "k", "e", "r">>,
             <<"p", "o", "i", "n", "t">>>>
      [] query_type = "compare" ->
           <<<<"c", "o", "m", "p", "a", "r", "e">>,
             <<"c", "o", "m", "p", "a", "r", "i", "s", "o", "n">>,
             <<"d", "i", "f", "f", "e", "r", "e", "n", "c", "e">>,
             <<"d", "i", "f", "f">>,
             <<"d", "e", "l", "t", "a">>,
             <<"c", "h", "a", "n", "g", "e">>>>
      [] OTHER -> <<>>

\* any(keyword in query for keyword in keywords)
AnyKeyword(query_type, q) ==
    \E i \in 1..Len(keywords(query_type)) : Contains(q, keywords(query_type)[i])

_is_cursor_query(q) == AnyKeyword("cursor", q)

_is_comparison_query(q) == AnyKeyword("compare", q)

\* variant: the last type, in dict order, one of whose keywords is in the query
ClassifierLastMatch(q) ==
    LET hits == {i \in 1..Len(KeywordTypes) : AnyKeyword(KeywordTypes[i], q)}
    IN  IF hits = {} THEN "unknown"
        ELSE KeywordTypes[CHOOSE i \in hits : \A j \in hits : i >= j]

\* the first type, in dict order, one of whose keywords is in the query
_determine_query_type(q) ==
    LET hits == {i \in 1..Len(KeywordTypes) : AnyKeyword(KeywordTypes[i], q)}
    IN  IF hits = {} THEN "unknown"
        ELSE KeywordTypes[CHOOSE i \in hits : \A j \in hits : i <= j]

Digits == {"0", "1", "2", "3", "4", "5", "6", "7", "8", "9"}

\* self.time_regex.search(query) finds a match: "at", whitespace, a digit
TimeMatches(q) ==
    \E i \in 1..Len(q) : \E j \in (i + 3)..Len(q) :
        /\ q[i] = "a" /\ q[i + 1] = "t"
        /\ \A k \in (i + 2)..(j - 1) : q[k] = " "
        /\ q[j] \in Digits

Abs(n) == IF n < 0 THEN -n ELSE n

\* variant: the loop replaces the closest index on an equal distance too
ClosestLastMinimum(time_array, target_time) ==
    IF time_array = <<>> THEN -1
    ELSE LET dist(i) == Abs(time_array[i] - target_time)
         IN  (CHOOSE i \in 1..Len(time_array) :
                 /\ \A j \in 1..Len(time_array) : dist(i) <= dist(j)
                 /\ \A j \in (i + 1)..Len(time_array) : dist(j) > dist(i)) - 1

\* _find_closest_time_index: the first index at the least distance
_find_closest_time_index(time_array, target_time) ==
    IF time_array = <<>> THEN -1
    ELSE LET dist(i) == Abs(time_array[i] - target_time)
         IN  (CHOOSE i \in 1..Len(time_array) :
                 /\ \A j \in 1..Len(time_array) : dist(i) <= dist(j)
                 /\ \A j \in 1..(i - 1) : dist(j) > dist(i)) - 1

\* a cursor of the context: absent (or an empty dict), or a dict with its x
Cursor(x) == [set |-> TRUE, x |-> x]
NoCursor == [set |-> FALSE, x |-> 0]

\* the context: None (or empty), or the cursors and the selected signals
Context(primaryCursor, diffCursor, selectedSignals) ==
    [given |-> TRUE, primaryCursor |-> primaryCursor, diffCursor |-> diffCursor,
     selectedSignals |-> selectedSignals]
NoContext == [given |-> FALSE, primaryCursor |-> NoCursor, diffCursor |-> NoCursor,
              selectedSignals |-> <<>>]

\* the measurement file: data['data'] (time and the signals) and data['signals']
Measurement(time, vehicleSpeed, signals) ==
    [data |-> [time |-> time, vehicleSpeed |-> vehicleSpeed], signals |-> signals]

\* data.get('data', {}).get(signal, [])
SignalData(data, signal) ==
    IF signal \in DOMAIN data.data THEN data.data[signal] ELSE <<>>

\* [s for s in seq if s != 'time']
RECURSIVE WithoutTime(_)
WithoutTime(seq) ==
    IF seq = <<>> THEN <<>>
    ELSE IF Head(seq) = "time" THEN WithoutTime(Tail(seq))
    ELSE <<Head(seq)>> \o WithoutTime(Tail(seq))

\* context.get('selectedSignals', []), else the signals of the file
SelectedSignals(data, context) ==
    IF context.selectedSignals # <<>> THEN context.selectedSignals
    ELSE WithoutTime(data.signals)

\* a returned dict: the message (kind) and what is interpolated into it
Answer(kind, confidence, values, comparisons) ==
    [raised |-> "", kind |-> kind, confidence |-> confidence,
     values |-> values, comparisons |-> comparisons]

\* an exception leaving process_query
AnswerRaised(type) ==
    [raised |-> type, kind |-> "", confidence |-> 0, values |-> <<>>, comparisons |-> <<>>]

NoAnswer == Answer("", 0, <<>>, <<>>)

RECURSIVE CursorValues(_, _, _)
\* the loop over selected_signals of _process_cursor_query
CursorValues(selected_signals, data, closest_idx) ==
    IF selected_signals = <<>> THEN <<>>
    ELSE LET signal == Head(selected_signals)
             signal_data == SignalData(data, signal)
             rest == CursorValues(Tail(selected_signals), data, closest_idx)
         IN  IF Len(signal_data) > closest_idx
             THEN <<[signal |-> signal, value |-> signal_data[closest_idx + 1]]>> \o rest
             ELSE rest

_process_cursor_query(q, data, context) ==
    LET primary_cursor == context.primaryCursor
        diff_cursor == context.diffCursor
        cursor == IF primary_cursor.set THEN primary_cursor ELSE diff_cursor
        time_array == data.data.time
        closest_idx == _find_closest_time_index(time_array, cursor.x)
    IN  IF ~primary_cursor.set /\ ~diff_cursor.set
        THEN Answer("no_cursor_active", 90, <<>>, <<>>)
        ELSE IF time_array = <<>>
        THEN Answer("no_time_data_cursor", 50, <<>>, <<>>)
        ELSE Answer(IF primary_cursor.set THEN "at_primary_cursor" ELSE "at_diff_cursor",
                    90, CursorValues(SelectedSignals(data, context), data, closest_idx),
                    <<>>)

\* one entry of the comparison answer; percent and rate are the quotients
\* num / den that the f-string formats
Comparison(signal, primary_val, diff_val, time_diff) ==
    [signal |-> signal, primary |-> primary_val, diff |-> diff_val,
     change |-> diff_val - primary_val,
     percent |-> [num |-> (diff_val - primary_val) * 100, den |-> primary_val],
     rate |-> IF time_diff # 0
              THEN [num |-> diff_val - primary_val, den |-> time_diff]
              ELSE [num |-> 0, den |-> 1]]

RECURSIVE Comparisons(_, _, _, _, _)
\* the signals that have a value at both indices, in selection order; a
\* signal selected twice is listed twice
Comparisons(selected_signals, data, primary_idx, diff_idx, time_diff) ==
    IF selected_signals = <<>> THEN <<>>
    ELSE LET signal == Head(selected_signals)
             signal_data == SignalData(data, signal)
             top == IF primary_idx > diff_idx THEN primary_idx ELSE diff_idx
             rest == Comparisons(Tail(selected_signals), data, primary_idx, diff_idx,
                                 time_diff)
         IN  IF Len(signal_data) > top
             THEN <<Comparison(signal, signal_data[primary_idx + 1],
                               signal_data[diff_idx + 1], time_diff)>> \o rest
             ELSE rest

_process_comparison_query(q, data, context) ==
    LET primary_cursor == context.primaryCursor
        diff_cursor == context.diffCursor
        time_array == data.data.time
        primary_idx == _find_closest_time_index(time_array, primary_cursor.x)
        diff_idx == _find_closest_time_index(time_array, diff_cursor.x)
        time_diff == diff_cursor.x - primary_cursor.x
        compared == Comparisons(SelectedSignals(data, context), data, primary_idx,
                                diff_idx, time_diff)
    IN  IF ~primary_cursor.set \/ ~diff_cursor.set
        THEN Answer("both_cursors_needed", 90, <<>>, <<>>)
        ELSE IF time_array = <<>>
        THEN Answer("no_time_data_comparison", 50, <<>>, <<>>)
        ELSE IF \E i \in 1..Len(compared) : compared[i].percent.den = 0
        THEN AnswerRaised("ZeroDivisionError")
        ELSE Answer("comparison", 90, <<>>, compared)

\* variant: the comparison vocabulary is looked for before the cursor one
RouteComparisonFirst(q, context) ==
    IF /\ context.given /\ _is_comparison_query(q)
       /\ context.primaryCursor.set /\ context.diffCursor.set
    THEN "comparison"
    ELSE IF context.given /\ _is_cursor_query(q) THEN "at_cursor"
    ELSE IF TimeMatches(q) THEN "time"
    ELSE _determine_query_type(q)

\* the branch of process_query that answers the lower-cased query: the
\* cursor handler (at_cursor), the comparison handler, the handler of
\* timestamps, or the type that _determine_query_type returns
Route(q, context) ==
    IF context.given /\ _is_cursor_query(q) THEN "at_cursor"
    ELSE IF /\ context.given /\ _is_comparison_query(q)
            /\ context.primaryCursor.set /\ context.diffCursor.set
    THEN "comparison"
    ELSE IF TimeMatches(q) THEN "time"
    ELSE _determine_query_type(q)

-----------------------------------------------------------------------------
(* QueryProcessor: the signals of a query and the max / min / avg handlers *)

\* self.signal_mappings, in the order of the dict
SignalKeys ==
    <<"rpm", "speed", "throttle", "temp", "fuel", "battery", "ambient", "oil">>

signal_mappings(signal_key) ==
    CASE signal_key = "rpm" ->
           <<<<"r", "p", "m">>,
             <<"e", "n", "g", "i", "n", "e", "R", "P", "M">>,
             <<"e", "n", "g", "i", "n", "e", " ", "r", "p", "m">>,
             <<"r", "e", "v", "o", "l", "u", "t", "i", "o", "n", "s">>>>
      [] signal_key = "speed" ->
           <<<<"s", "p", "e", "e", "d">>,
             <<"v", "e", "h", "i", "c", "l", "e", "S", "p", "e", "e", "d">>,
             <<"v", "e", "h", "i", "c", "l", "e", " ", "s", "p", "e", "e", "d">>>>
      [] signal_key = "throttle" ->
           <<<<"t", "h", "r", "o", "t", "t", "l", "e">>,
             <<"t", "h", "r", "o", "t", "t", "l", "e", "P", "o", "s", "i", "t", "i", "o", "n">>,
             <<"t", "h", "r", "o", "t", "t", "l", "e", " ", "p", "o", "s", "i", "t", "i", "o", "n">>>>
      [] signal_key = "temp" ->
           <<<<"t", "e", "m", "p">>,
             <<"t", "e", "m", "p", "e", "r", "a", "t", "u", "r", "e">>,
             <<"e", "n", "g", "i", "n", "e", "T", "e", "m", "p">>,
             <<"e", "n", "g", "i", "n", "e", " ", "t", "e", "m", "p", "e", "r", "a", "t", "u", "r", "e">>>>
      [] signal_key = "fuel" ->
           <<<<"f", "u", "e", "l">>,
             <<"f", "u", "e", "l", "C", "o", "n", "s", "u", "m", "p", "t", "i", "o", "n">>,
             <<"f", "u", "e", "l", " ", "c", "o", "n", "s", "u", "m", "p", "t", "i", "o", "n">>>>
      [] signal_key = "battery" ->
           <<<<"b", "a", "t", "t", "e", "r", "y">>,
             <<"b", "a", "t", "t", "e", "r", "y", "V", "o", "l", "t", "a", "g", "e">>,
             <<"b", "a", "t", "t", "e", "r", "y", " ", "v", "o", "l", "t", "a", "g", "e">>>>
      [] signal_key = "ambient" ->
           <<<<"a", "m", "b", "i", "e", "n", "t">>,
             <<"a", "m", "b", "i", "e", "n", "t", "T", "e", "m", "p">>,
             <<"a", "m", "b", "i", "e", "n", "t", " ", "t", "e", "m", "p", "e", "r", "a", "t", "u", "r", "e">>>>
      [] OTHER ->
           <<<<"o", "i", "l">>,
             <<"o", "i", "l", "P", "r", "e", "s", "s", "u", "r", "e">>,
             <<"o", "i", "l", " ", "p", "r", "e", "s", "s", "u", "r", "e">>>>

\* list(data.get('data', {}).keys()): the keys in the order of the file
DataKeys(data) ==
    SelectSeq(<<"time", "engineRPM", "vehicleSpeed">>, LAMBDA k : k \in DOMAIN data.data)

\* signal.lower() in variations or any(v in signal.lower() for v in variations)
NamedBy(signal, variations) ==
    LET lowered == LowerText(Spell(signal))
    IN  \/ InSeq(lowered, variations)
        \/ \E i \in 1..Len(variations) : Contains(lowered, variations[i])

RECURSIVE FirstNew(_, _, _)
\* the inner loop over available_signals: the first signal the variations
\* name that is not matched yet and is not the time axis
FirstNew(available_signals, variations, matched_signals) ==
    IF available_signals = <<>> THEN matched_signals
    ELSE LET signal == Head(available_signals)
         IN  IF /\ NamedBy(signal, variations)
                /\ ~InSeq(signal, matched_signals)
                /\ signal # "time"
             THEN Append(matched_signals, signal)
             ELSE FirstNew(Tail(available_signals), variations, matched_signals)

RECURSIVE MatchVariations(_, _, _, _, _)
\* the two outer loops: every variation of every key, in order, that occurs
\* in the query runs the inner loop once
MatchVariations(query_text, available_signals, k, v, matched_signals) ==
    IF k > Len(SignalKeys) THEN matched_signals
    ELSE LET variations == signal_mappings(SignalKeys[k])
         IN  IF v > Len(variations)
             THEN MatchVariations(query_text, available_signals, k + 1, 1, matched_signals)
             ELSE MatchVariations(query_text, available_signals, k, v + 1,
                      IF Contains(query_text, variations[v])
                      THEN FirstNew(available_signals, variations, matched_signals)
                      ELSE matched_signals)

_extract_signals(query_text, data) ==
    LET available_signals == DataKeys(data)
        matched_signals == MatchVariations(query_text, available_signals, 1, 1, <<>>)
    IN  IF matched_signals = <<>> /\ available_signals # <<>>
        THEN WithoutTime(available_signals)
        ELSE matched_signals

\* a returned dict whose metadata has keys besides confidence and
\* processingTime: metadata maps each of those keys to its value
Reply(kind, confidence, metadata) ==
    [raised |-> "", kind |-> kind, confidence |-> confidence,
     values |-> <<>>, comparisons |-> <<>>, metadata |-> metadata]

\* an exact number num / den
Fraction(num, den) == [num |-> num, den |-> den]

RECURSIVE SumOf(_)
SumOf(signal_data) ==
    IF signal_data = <<>> THEN 0 ELSE Head(signal_data) + SumOf(Tail(signal_data))

Elements(signal_data) == {signal_data[i] : i \in 1..Len(signal_data)}

\* max(signal_data), min(signal_data), sum(signal_data) / len(signal_data)
Statistic(query_type, signal_data) ==
    CASE query_type = "max" ->
           Fraction(CHOOSE x \in Elements(signal_data) :
                       \A y \in Elements(signal_data) : y <= x, 1)
      [] query_type = "min" ->
           Fraction(CHOOSE x \in Elements(signal_data) :
                       \A y \in Elements(signal_data) : x <= y, 1)
      [] OTHER -> Fraction(SumOf(signal_data), Len(signal_data))

\* what the statistic raises on an empty list
StatisticError(query_type) ==
    IF query_type = "avg" THEN "ZeroDivisionError" ELSE "ValueError"

RECURSIVE StatisticResults(_, _, _)
\* the loop that fills results: one (signal, value) per signal of the data
StatisticResults(query_type, data, signals) ==
    IF signals = <<>> THEN <<>>
    ELSE LET signal == Head(signals)
             rest == StatisticResults(query_type, data, Tail(signals))
         IN  IF signal \in DOMAIN data.data
             THEN <<[signal |-> signal,
                     value |-> Statistic(query_type, data.data[signal])]>> \o rest
             ELSE rest

\* {signal: value for signal, value in results}
ResultDict(results) ==
    [s \in {results[i].signal : i \in 1..Len(results)} |->
        LET last == CHOOSE i \in 1..Len(results) :
                       /\ results[i].signal = s
                       /\ \A j \in (i + 1)..Len(results) : results[j].signal # s
        IN  results[last].value]

\* the variant that answers every count of results with the same confidence
FormatStatisticFlat(query_type, results) ==
    IF Len(results) = 1
    THEN Reply(query_type, 90, [value |-> results[1].value])
    ELSE Reply(query_type, 90, [values |-> ResultDict(results)])

\* "Format the answer": one result or several
FormatStatistic(query_type, results) ==
    IF Len(results) = 1
    THEN Reply(query_type, 95, [value |-> results[1].value])
    ELSE Reply(query_type, 90, [values |-> ResultDict(results)])

\* the body the three handlers share, statistic apart
StatisticQuery(query_type, data, signals) ==
    IF signals = <<>> THEN Answer("which_signal", 50, <<>>, <<>>)
    ELSE IF \E i \in 1..Len(signals) :
               /\ signals[i] \in DOMAIN data.data
               /\ data.data[signals[i]] = <<>>
    THEN AnswerRaised(StatisticError(query_type))
    ELSE LET results == StatisticResults(query_type, data, signals)
         IN  IF results = <<>> THEN Answer("signals_not_found", 50, <<>>, <<>>)
             ELSE FormatStatistic(query_type, results)

_process_max_query(q, data, signals) == StatisticQuery("max", data, signals)

_process_min_query(q, data, signals) == StatisticQuery("min", data, signals)

_process_avg_query(q, data, signals) == StatisticQuery("avg", data, signals)

-----------------------------------------------------------------------------
(* QueryProcessor: the correlation and anomaly handlers                    *)

RECURSIVE SumOfProducts(_, _)
SumOfProducts(a, b) ==
    IF a = <<>> THEN 0 ELSE Head(a) * Head(b) + SumOfProducts(Tail(a), Tail(b))

\* n times n times the covariance of two lists of n numbers
Covariation(a, b) == Len(a) * SumOfProducts(a, b) - SumOf(a) * SumOf(b)

\* np.corrcoef(a, b)[0, 1] for lists of one length, kept exact: the
\* coefficient is num / sqrt(square), and nan when square is 0
corrcoef(a, b) ==
    [num |-> Covariation(a, b), square |-> Covariation(a, a) * Covariation(b, b)]

IsNaN(correlation) == correlation.square = 0

\* correlation > tenths / 10; a comparison with nan is False
Exceeds(correlation, tenths) ==
    /\ ~IsNaN(correlation)
    /\ IF tenths >= 0
       THEN /\ correlation.num > 0
            /\ 100 * correlation.num * correlation.num
                  > tenths * tenths * correlation.square
       ELSE \/ correlation.num >= 0
            \/ 100 * correlation.num * correlation.num
                  < tenths * tenths * correlation.square

\* correlation < tenths / 10
Below(correlation, tenths) ==
    /\ ~IsNaN(correlation)
    /\ IF tenths <= 0
       THEN /\ correlation.num < 0
            /\ 100 * correlation.num * correlation.num
                  > tenths * tenths * correlation.square
       ELSE \/ correlation.num <= 0
            \/ 100 * correlation.num * correlation.num
                  < tenths * tenths * correlation.square

\* the variant whose chain ends in the strong positive band
StrengthEndingPositive(correlation) ==
    IF Exceeds(correlation, 8) THEN "strong positive"
    ELSE IF Exceeds(correlation, 5) THEN "moderate positive"
    ELSE IF Exceeds(correlation, 2) THEN "weak positive"
    ELSE IF Exceeds(correlation, -2) THEN "negligible"
    ELSE IF Exceeds(correlation, -5) THEN "weak negative"
    ELSE IF Exceeds(correlation, -8) THEN "moderate negative"
    ELSE "strong positive"

\* "Interpret the correlation": the if / elif chain
Strength(correlation) ==
    IF Exceeds(correlation, 8) THEN "strong positive"
    ELSE IF Exceeds(correlation, 5) THEN "moderate positive"
    ELSE IF Exceeds(correlation, 2) THEN "weak positive"
    ELSE IF Exceeds(correlation, -2) THEN "negligible"
    ELSE IF Exceeds(correlation, -5) THEN "weak negative"
    ELSE IF Exceeds(correlation, -8) THEN "moderate negative"
    ELSE "strong negative"

\* the sentence appended to the answer
Tendency(correlation) ==
    IF Exceeds(correlation, 5) THEN "increase"
    ELSE IF Below(correlation, -5) THEN "decrease"
    ELSE ""

_process_correlation_query(q, data, signals) ==
    IF Len(signals) < 2 THEN Answer("need_two_signals", 50, <<>>, <<>>)
    ELSE LET signal1 == signals[1]
             signal2 == signals[2]
         IN  IF signal1 \in DOMAIN data.data /\ signal2 \in DOMAIN data.data
             THEN LET signal1_data == data.data[signal1]
                      signal2_data == data.data[signal2]
                  IN  IF Len(signal1_data) # Len(signal2_data)
                      THEN AnswerRaised("ValueError")
                      ELSE LET correlation == corrcoef(signal1_data, signal2_data)
                           IN  [Reply("correlation", 90, [correlation |-> correlation])
                                  EXCEPT !.values =
                                     <<[signal1 |-> signal1, signal2 |-> signal2,
                                        strength |-> Strength(correlation),
                                        tendency |-> Tendency(correlation)]>>]
             ELSE Answer("signals_not_found", 50, <<>>, <<>>)

\* abs(value - mean) > 3 * std_dev for the value at index i, with the mean
\* sum / len and np.std the population deviation; both sides times len, squared
Deviates(signal_data, i) ==
    LET n == Len(signal_data)
        d == n * signal_data[i] - SumOf(signal_data)
    IN  d * d > 9 * Covariation(signal_data, signal_data)

\* the dict appended for the value at index i; deviation is kept as its square
Anomaly(signal, data, i) ==
    LET signal_data == data.data[signal]
        n == Len(signal_data)
        d == n * signal_data[i] - SumOf(signal_data)
    IN  [signal |-> signal,
         time |-> IF "time" \in DOMAIN data.data THEN data.data.time[i] ELSE i - 1,
         value |-> signal_data[i],
         expected |-> Fraction(SumOf(signal_data), n),
         deviation |-> Fraction(d * d, Covariation(signal_data, signal_data))]

\* the indices of a signal whose values deviate, in order
Deviating(signal_data) ==
    SelectSeq([i \in 1..Len(signal_data) |-> i], LAMBDA i : Deviates(signal_data, i))

RECURSIVE CollectAnomalies(_, _, _)
\* the loop over signals_to_check: the exception that ends it, if any, and
\* the anomalies appended
CollectAnomalies(signals_to_check, data, anomalies) ==
    IF signals_to_check = <<>> THEN [raised |-> "", anomalies |-> anomalies]
    ELSE LET signal == Head(signals_to_check)
         IN  IF signal \notin DOMAIN data.data
             THEN CollectAnomalies(Tail(signals_to_check), data, anomalies)
             ELSE LET signal_data == data.data[signal]
                      found == Deviating(signal_data)
                  IN  IF signal_data = <<>>
                      THEN [raised |-> "ZeroDivisionError", anomalies |-> anomalies]
                      ELSE IF /\ "time" \in DOMAIN data.data
                              /\ \E k \in 1..Len(found) : found[k] > Len(data.data.time)
                      THEN [raised |-> "IndexError", anomalies |-> anomalies]
                      ELSE CollectAnomalies(Tail(signals_to_check), data,
                               anomalies \o [k \in 1..Len(found) |->
                                                Anomaly(signal, data, found[k])])

\* x['deviation'] of a is larger than that of b
MoreSevere(a, b) ==
    a.deviation.num * b.deviation.den > b.deviation.num * a.deviation.den

RECURSIVE InsertBySeverity(_, _)
InsertBySeverity(sorted, a) ==
    IF sorted = <<>> THEN <<a>>
    ELSE IF MoreSevere(a, Head(sorted)) THEN <<a>> \o sorted
    ELSE <<Head(sorted)>> \o InsertBySeverity(Tail(sorted), a)

RECURSIVE SortBySeverity(_)
\* anomalies.sort(key=lambda x: x['deviation'], reverse=True): stable
SortBySeverity(anomalies) ==
    IF anomalies = <<>> THEN <<>>
    ELSE InsertBySeverity(SortBySeverity(SubSeq(anomalies, 1, Len(anomalies) - 1)),
                          anomalies[Len(anomalies)])

\* anomalies[:10]
TopTen(anomalies) ==
    SubSeq(anomalies, 1, IF Len(anomalies) < 10 THEN Len(anomalies) ELSE 10)

_process_anomaly_query(q, data, signals) ==
    LET signals_to_check == IF signals # <<>> THEN signals
                            ELSE WithoutTime(DataKeys(data))
        collected == CollectAnomalies(signals_to_check, data, <<>>)
    IN  IF collected.raised # "" THEN AnswerRaised(collected.raised)
        ELSE IF collected.anomalies = <<>>
        THEN Answer("no_anomalies", 70, <<>>, <<>>)
        ELSE Reply("anomalies", 85,
                   [anomalies |-> TopTen(SortBySeverity(collected.anomalies))])

-----------------------------------------------------------------------------
(* QueryProcessor: queries about a point in time                           *)

DigitValue(c) ==
    CASE c = "0" -> 0 [] c = "1" -> 1 [] c = "2" -> 2 [] c = "3" -> 3 [] c = "4" -> 4
      [] c = "5" -> 5 [] c = "6" -> 6 [] c = "7" -> 7 [] c = "8" -> 8 [] OTHER -> 9

RECURSIVE NumberAt(_, _, _)
\* the number written by the digits q[from..to]
NumberAt(q, from, to) ==
    IF to < from THEN 0 ELSE 10 * NumberAt(q, from, to - 1) + DigitValue(q[to])

\* text p stands in q at position i
StandsAt(q, i, p) ==
    i + Len(p) - 1 <= Len(q) /\ \A k \in 1..Len(p) : q[i + k - 1] = p[k]

\* the groups of self.time_regex.search(query), for a query that matches:
\* the leftmost "at", whitespace, the longest run of digits, whitespace, and
\* the unit that stands there, if any, tried in the order ms, s, seconds,
\* milliseconds. The texts here hold no decimal point, so group 2 is empty.
time_match(q) ==
    LET starts == {i \in 1..Len(q) : \E j \in (i + 3)..Len(q) :
                      /\ q[i] = "a" /\ q[i + 1] = "t"
                      /\ \A k \in (i + 2)..(j - 1) : q[k] = " "
                      /\ q[j] \in Digits}
        i == CHOOSE a \in starts : \A b \in starts : a <= b
        j == CHOOSE a \in (i + 3)..Len(q) :
                /\ q[a] \in Digits /\ \A k \in (i + 2)..(a - 1) : q[k] = " "
        e == CHOOSE a \in j..Len(q) :
                /\ \A k \in j..a : q[k] \in Digits
                /\ (a = Len(q) \/ q[a + 1] \notin Digits)
        u == CHOOSE a \in (e + 1)..(Len(q) + 1) :
                /\ \A k \in (e + 1)..(a - 1) : q[k] = " "
                /\ (a = Len(q) + 1 \/ q[a] # " ")
    IN  [value |-> NumberAt(q, j, e),
         unit |-> IF StandsAt(q, u, <<"m", "s">>) THEN "ms"
                  ELSE IF StandsAt(q, u, <<"s">>) THEN "s"
                  ELSE IF StandsAt(q, u, <<"m", "i", "l", "l", "i", "s", "e", "c", "o", "n", "d", "s">>)
                  THEN "milliseconds"
                  ELSE ""]

RECURSIVE ValuesAt(_, _, _)
\* the loop over data['data'] that fills results when no signal was extracted
ValuesAt(names, data, closest_idx) ==
    IF names = <<>> THEN <<>>
    ELSE LET signal == Head(names)
             rest == ValuesAt(Tail(names), data, closest_idx)
         IN  IF signal # "time" /\ closest_idx < Len(data.data[signal])
             THEN <<[signal |-> signal, value |-> data.data[signal][closest_idx + 1]]>> \o rest
             ELSE rest

\* _process_time_query(query, data, time_match); times are in milliseconds
_process_time_query(q, data, match) ==
    LET time_unit == IF match.unit = "" THEN "ms" ELSE match.unit
        time_seconds == IF time_unit \in {"ms", "milliseconds"}
                        THEN match.value ELSE 1000 * match.value
        time_array == IF "time" \in DOMAIN data.data THEN data.data.time ELSE <<>>
        closest_idx == _find_closest_time_index(
                           [k \in 1..Len(time_array) |-> 1000 * time_array[k]], time_seconds)
        signals == _extract_signals(q, data)
    IN  IF time_array = <<>> THEN Answer("no_time_data", 50, <<>>, <<>>)
        ELSE IF closest_idx = -1 THEN Answer("no_close_time", 50, <<>>, <<>>)
        ELSE IF signals = <<>>
        THEN LET results == ValuesAt(DataKeys(data), data, closest_idx)
             IN  IF results = <<>> THEN Answer("no_signal_data_at_time", 50, <<>>, <<>>)
                 ELSE [Reply("values_at_time", 90,
                             [time |-> time_array[closest_idx + 1],
                              requestedTime |-> time_seconds,
                              values |-> results])
                         EXCEPT !.values = results]
        ELSE LET signal == signals[1]
             IN  IF /\ signal \in DOMAIN data.data
                    /\ closest_idx < Len(data.data[signal])
                 THEN [Reply("value_at_time", 95,
                             [value |-> data.data[signal][closest_idx + 1],
                              time |-> time_array[closest_idx + 1],
                              requestedTime |-> time_seconds])
                         EXCEPT !.values =
                            <<[signal |-> signal,
                               value |-> data.data[signal][closest_idx + 1]]>>]
                 ELSE Answer("no_data_for_signal", 50, <<>>, <<>>)

\* the branches modelled; the summary branch is left out
ModelledRoutes ==
    {"at_cursor", "cursor", "comparison", "time", "compare", "unknown",
     "max", "min", "avg", "correlation", "anomaly"}

QueryProcessor_process_query(query_text, data, context) ==
    LET q == LowerText(query_text)
        route == Route(q, context)
        signals == IF context.given /\ context.selectedSignals # <<>>
                   THEN context.selectedSignals
                   ELSE _extract_signals(q, data)
    IN  IF route = "at_cursor" THEN _process_cursor_query(q, data, context)
        ELSE IF route = "comparison" THEN _process_comparison_query(q, data, context)
        ELSE IF route = "time" THEN _process_time_query(q, data, time_match(q))
        ELSE IF route = "max" THEN _process_max_query(q, data, signals)
        ELSE IF route = "min" THEN _process_min_query(q, data, signals)
        ELSE IF route = "avg" THEN _process_avg_query(q, data, signals)
        ELSE IF route = "correlation" THEN _process_correlation_query(q, data, signals)
        ELSE IF route = "anomaly" THEN _process_anomaly_query(q, data, signals)
        ELSE Answer("not_sure", 30, <<>>, <<>>)

-----------------------------------------------------------------------------
(* Inputs of the processor runs                                            *)

ProcessorWords == {"compare", "cursor", "show"}

\* questions of at most two words of the vocabulary
ProcessorQueries == SeqsUpTo(ProcessorWords, 2)

Cursors == {NoCursor, Cursor(0), Cursor(2)}

Selections == {<<>>, <<"vehicleSpeed">>, <<"ghost">>}

Contexts ==
    {NoContext} \cup {Context(p, d, s) : p \in Cursors, d \in Cursors, s \in Selections}

Measurements ==
    {Measurement(t, v, s) :
        t \in {<<>>, <<0, 2>>},
        v \in SeqsUpTo(Samples, MaxSamples),
        s \in {<<>>, <<"time", "vehicleSpeed">>}}

\* a file with two signals; the time axis covers the longer one
Recording(engineRPM, vehicleSpeed) ==
    LET length == IF Len(engineRPM) > Len(vehicleSpeed)
                  THEN Len(engineRPM) ELSE Len(vehicleSpeed)
    IN  [data |-> [time |-> [i \in 1..length |-> i - 1],
                   engineRPM |-> engineRPM, vehicleSpeed |-> vehicleSpeed],
         signals |-> <<"time", "engineRPM", "vehicleSpeed">>]

\* one value far from n equal ones
Outlier(n) == [i \in 1..(n + 1) |-> IF i = n + 1 THEN 1 ELSE 0]

\* lists of four samples whose coefficients with <<0, 1, 3, 3>> fall in each
\* of the bands, and a constant one
Shapes ==
    {<<0, 1, 3, 3>>, <<0, 0, 0, 1>>, <<0, 1, 0, 3>>, <<0, 1, 0, 1>>,
     <<0, 1, 0, 0>>, <<1, 0, 0, 0>>, <<3, 1, 0, 0>>, <<1, 1, 1, 1>>}

Recordings ==
    {Recording(e, v) :
        e \in SeqsUpTo(Samples, MaxSamples) \cup {<<0, 1, 3, 3>>, <<1, 1, 1, 1>>, Outlier(11)},
        v \in Shapes \cup {<<>>, <<1, 1>>, <<0, 3>>, Outlier(12)}}

AnalysisWords == {"maximum", "minimum", "average", "correlation", "anomaly"}

AnalysisQueries ==
    {<<k>> \o named : k \in AnalysisWords,
                      named \in {<<>>, <<"rpm">>, <<"speed", "rpm">>}}

AnalysisContexts ==
    {NoContext,
     Context(NoCursor, NoCursor, <<"vehicleSpeed">>),
     Context(NoCursor, NoCursor, <<"ghost", "engineRPM">>)}

\* questions that name a time, alone or after a signal or a word of the
\* cursor and comparison vocabularies
TimeQueries ==
    {before \o <<"at", "1">> \o after :
        before \in {<<>>, <<"rpm">>, <<"speed">>, <<"cursor">>, <<"compare">>},
        after \in {<<>>, <<"s">>, <<"show">>}}

TimeContexts ==
    {NoContext,
     Context(NoCursor, NoCursor, <<>>),
     Context(Cursor(0), NoCursor, <<>>),
     Context(Cursor(0), Cursor(2), <<"vehicleSpeed">>)}

TimeRecordings ==
    {Recording(e, v) : e \in {<<1>>, <<0, 3>>}, v \in {<<>>, <<1, 1>>, <<0, 1, 3, 3>>}}

NoQuestion == [query |-> <<>>, data |-> Measurement(<<>>, <<>>, <<>>), context |-> NoContext]

-----------------------------------------------------------------------------
(* Initial state and the actions of the engine                             *)

NoBehaviour == Behaviour("", <<>>)
NoResult == Returned(NoValue, "")

Init ==
    /\ epc = "idle"
    /\ query = <<>>
    /\ available = <<>>
    /\ behaviour = NoBehaviour
    /\ answer = <<>>
    /\ result = NoResult
    /\ vpc = "idle"
    /\ vin = NoValidation
    /\ vout = [err |-> NoErr, at |-> 0, ops |-> <<>>]
    /\ cpc = "idle"
    /\ cin = NoRequest
    /\ cout = NoOperationResult
    /\ ppc = "idle"
    /\ pin = NoQuestion
    /\ pout = NoAnswer

\* a caller invokes process_query(query, available_signals); the prompt is built
Submit ==
    /\ epc = "idle" /\ vpc = "idle" /\ cpc = "idle" /\ ppc = "idle"
    /\ \E q \in Queries, l \in SignalLists :
          /\ query' = q
          /\ available' = l
    /\ epc' = "prompted"
    /\ behaviour' = NoBehaviour
    /\ answer' = <<>>
    /\ result' = NoResult
    /\ UNCHANGED <<validatorVars, catalogVars, processorVars>>

\* self.openai_integration.process_query(prompt, mock_data) returns;
\* response = response_data.get('answer', '')
AssistantCall ==
    /\ epc = "prompted"
    /\ \E b \in Behaviours :
          /\ behaviour' = b
          /\ answer' = LET d == OpenAI_process_query(b)
                       IN  IF d.has_answer THEN d.answer ELSE <<>>
    /\ epc' = "answered"
    /\ UNCHANGED <<query, available, result>>
    /\ UNCHANGED <<validatorVars, catalogVars, processorVars>>

\* _parse_response and the except clauses of process_query; the call returns
ParseAndReturn ==
    /\ epc = "answered"
    /\ result' = process_query(answer, QueryText(query), available)
    /\ epc' = "done"
    /\ UNCHANGED <<query, available, behaviour, answer>>
    /\ UNCHANGED <<validatorVars, catalogVars, processorVars>>

\* the result has been handed to the caller; nothing is kept between requests
Forget ==
    /\ epc = "done"
    /\ epc' = "idle"
    /\ query' = <<>>
    /\ available' = <<>>
    /\ behaviour' = NoBehaviour
    /\ answer' = <<>>
    /\ result' = NoResult
    /\ UNCHANGED <<validatorVars, catalogVars, processorVars>>

NextEngine == Submit \/ AssistantCall \/ ParseAndReturn \/ Forget

SpecEngine == Init /\ [][NextEngine]_vars

-----------------------------------------------------------------------------
(* The validator and the catalog, called on their own                      *)

\* self._validate_operations(operations, available_signals) runs to its end
Validate ==
    /\ epc = "idle" /\ vpc = "idle" /\ cpc = "idle" /\ ppc = "idle"
    /\ \E ops \in SeqsUpTo(ValidatorOperations, MaxValOps), l \in ValidatorSignalLists :
          /\ vin' = [operations |-> ops, available_signals |-> l]
          /\ vout' = _validate_operations(ops, l)
    /\ vpc' = "done"
    /\ UNCHANGED <<engineVars, catalogVars, processorVars>>

ForgetValidation ==
    /\ vpc = "done"
    /\ vpc' = "idle"
    /\ vin' = NoValidation
    /\ vout' = [err |-> NoErr, at |-> 0, ops |-> <<>>]
    /\ UNCHANGED <<engineVars, catalogVars, processorVars>>

\* signal_processor.execute_operation(operation_type, signals_data, **parameters)
Execute ==
    /\ epc = "idle" /\ vpc = "idle" /\ cpc = "idle" /\ ppc = "idle"
    /\ \E r \in Requests : \E d \in DataFor(r.operation_type) :
          /\ r.operation_type \in ModelledOperations \cup {"bogus"}
          /\ cin' = [operation_type |-> r.operation_type, parameters |-> r.parameters,
                     signals_data |-> d]
          /\ cout' = execute_operation(r.operation_type, d, r.parameters)
    /\ cpc' = "done"
    /\ UNCHANGED <<engineVars, validatorVars, processorVars>>

ForgetExecution ==
    /\ cpc = "done"
    /\ cpc' = "idle"
    /\ cin' = NoRequest
    /\ cout' = NoOperationResult
    /\ UNCHANGED <<engineVars, validatorVars, processorVars>>

NextOperations == Validate \/ ForgetValidation \/ Execute \/ ForgetExecution

SpecOperations == Init /\ [][NextOperations]_vars

-----------------------------------------------------------------------------
(* The query processor                                                     *)

\* query_processor.process_query(query, data, context) runs to its end
\* questions with keywords of two types
MixedQueries ==
    {<<"minimum", "maximum">>, <<"anomaly", "average">>, <<"compare", "correlation">>,
     <<"cursor", "maximum">>}

\* one call of process_query(query, data, context)
Asked(words, d, c) ==
    /\ Route(LowerText(QueryText(words)), c) \in ModelledRoutes
    /\ pin' = [query |-> words, data |-> d, context |-> c]
    /\ pout' = QueryProcessor_process_query(QueryText(words), d, c)

\* the questions asked: about cursors, about a time, and about the signals
\* of a recording
Ask ==
    /\ epc = "idle" /\ vpc = "idle" /\ cpc = "idle" /\ ppc = "idle"
    /\ \/ \E words \in ProcessorQueries, d \in Measurements, c \in Contexts :
             Asked(words, d, c)
       \/ \E words \in TimeQueries, d \in Measurements \cup TimeRecordings, c \in TimeContexts :
             Asked(words, d, c)
       \/ \E words \in AnalysisQueries, d \in Recordings, c \in AnalysisContexts :
             Asked(words, d, c)
       \/ \E words \in MixedQueries, d \in TimeRecordings : Asked(words, d, NoContext)
    /\ ppc' = "done"
    /\ UNCHANGED <<engineVars, validatorVars, catalogVars>>

ForgetAnswer ==
    /\ ppc = "done"
    /\ ppc' = "idle"
    /\ pin' = NoQuestion
    /\ pout' = NoAnswer
    /\ UNCHANGED <<engineVars, validatorVars, catalogVars>>

NextProcessor == Ask \/ ForgetAnswer

SpecProcessor == Init /\ [][NextProcessor]_vars

\* one request at a time, whichever component serves it
Next == NextEngine \/ NextOperations \/ NextProcessor

Spec == Init /\ [][Next]_vars

-----------------------------------------------------------------------------
(* Properties of the engine                                                *)

Range(f) == {f[i] : i \in DOMAIN f}

Done == epc = "done"

\* the reply content is exactly one {operations, explanation} object
ContentIsOneRecord ==
    /\ behaviour.kind = "content"
    /\ Len(behaviour.text) = 1
    /\ behaviour.text[1].k = "obj"
    /\ behaviour.text[1].v.has_ops
    /\ behaviour.text[1].v.has_expl

\* the record of a one-object reply, built and validated on its own
RecordOfContent == BuildAndValidate(JsonLoads(behaviour.text), available)

\* C1: when the reply content is exactly one JSON object {operations,
\* explanation} whose operations all pass validation, process_query returns
\* exactly those operations and that explanation by the direct parse, and
\* the keyword fallback is not used.
C1_DirectParseReturnsRecord ==
    (Done /\ ContentIsOneRecord /\ RecordOfContent.ok)
        => /\ result.raised = ""
           /\ result.value = RecordOfContent.value
           /\ result.stage = "direct"

AssistantFailed ==
    behaviour.kind \in {"no_key", "request_exception", "http_error", "no_choices"}

\* C2: whenever the assistant call fails, the result of process_query is the
\* keyword-fallback outcome for the query and signal list, the same as for
\* an unparsable reply, whatever text the failure message carries.
C2_FailureIsKeywordFallback ==
    (Done /\ AssistantFailed)
        => result = process_query(<<Prose>>, QueryText(query), available)

NamedSignals == {s \in Range(available) : s \in Range(query)}

NamesBinaryOperation == \E i \in 1..Len(query) : query[i] \in BinaryOps

\* an operation passes validation against the request's signal list
Executable(op) == ValidateOne(op, available).err.kind = ""

NoExecutableOperation ==
    \A i \in 1..Len(result.value.operations) : ~Executable(result.value.operations[i])

AsksForSecondSignal ==
    /\ result.value.explanation.kind = "binary_need_one_more"
    /\ result.value.explanation.sig \in NamedSignals

\* C6 as stated: for a query that names a binary operation and exactly one
\* available signal, the resolver returns no executable operation and an
\* explanation that names the found signal and asks for the second one.
C6_AsStated ==
    (Done /\ NamesBinaryOperation /\ Cardinality(NamedSignals) = 1)
        => /\ result.raised = ""
           /\ NoExecutableOperation
           /\ AsksForSecondSignal

\* a record was extracted from the reply and passed validation
RecordExtracted == result.stage \in {"direct", "fenced", "salvage"}

\* C6 amended: for such a query, unless a record extracted from the reply
\* passes validation (it is then returned as it is), the resolver returns one
\* partial operation that does not pass validation, and an explanation that
\* names the found signal and asks for the second one; it never raises.
C6_PartialBinaryOperation ==
    (Done /\ NamesBinaryOperation /\ Cardinality(NamedSignals) = 1 /\ ~RecordExtracted)
        => /\ result.raised = ""
           /\ Len(result.value.operations) = 1
           /\ NoExecutableOperation
           /\ AsksForSecondSignal

\* C6 witness: the one-signal binary query answered by the clarification,
\* after the validator rejected the extracted one-signal operation
C6_Witness ==
    /\ Done
    /\ NamesBinaryOperation
    /\ Cardinality(NamedSignals) = 1
    /\ Len(available) = 2
    /\ behaviour = Behaviour("content",
           <<FenceJson, Obj(JsonObject(TRUE, <<OpAddOne>>, TRUE, "E")), Fence>>)
    /\ result.stage = "fallback"
    /\ Len(result.value.operations) = 1
    /\ AsksForSecondSignal

\* the record the parser loads from the answer: after fence stripping, or
\* else the brace match
LoadedRecord ==
    LET loaded == JsonLoads(StripFence(answer))
    IN  IF loaded.ok THEN loaded ELSE JsonLoads(BraceMatch(answer).text)

\* what the validator says about the operations of the loaded record
ValidationOfReply ==
    IF LoadedRecord.ok /\ LoadedRecord.is_dict /\ SchemaOk(LoadedRecord.v)
    THEN _validate_operations(FromDict(LoadedRecord.v).operations, available)
    ELSE [err |-> NoErr, at |-> 0, ops |-> <<>>]

FailedOperation == ValidationOfReply.ops[ValidationOfReply.at]

\* the clarification handler that fits a validation failure
HandlerOfFailure ==
    CASE ValidationOfReply.err.kind = "ArityMismatch"
            /\ FailedOperation.operation \in BinaryOps -> "binary"
      [] ValidationOfReply.err.kind = "ArityMismatch"
            /\ FailedOperation.operation \in UnaryOps -> "unary"
      [] ValidationOfReply.err.kind = "InvalidParameter"
            /\ FailedOperation.operation = "filter" -> "filter"
      [] OTHER -> ""

HandlerOfExplanation ==
    CASE result.value.explanation.kind \in {"binary_need_one_more", "binary_need_two"}
           -> "binary"
      [] result.value.explanation.kind \in
           {"unary_need_factor", "unary_need_order", "unary_need_sample_rate",
            "unary_need_more_info", "unary_need_signal"} -> "unary"
      [] result.value.explanation.kind \in
           {"filter_need_type_and_cutoff", "filter_need_signal"} -> "filter"
      [] result.value.explanation.kind \in {"scale_need_factor", "scale_need_signal"}
           -> "scale"
      [] OTHER -> "other"

\* C7: when an operation extracted from the reply fails validation, the
\* clarification is the one of the handler that fits the failure (binary
\* arity, unary arity, invalid filter type), whatever operation keywords the
\* query contains.
C7_ClarificationFollowsFailure ==
    (Done /\ HandlerOfFailure # "") => HandlerOfExplanation = HandlerOfFailure

-----------------------------------------------------------------------------
(* Properties of the validator and of the catalog                          *)

Validated == vpc = "done"

Executed == cpc = "done"

\* the four checks of one operation, each stated on its own
UnknownName(op) == op.operation \notin Range(valid_operations)

MissingSignal(op) == \E i \in 1..Len(op.signals) : op.signals[i] \notin Range(vin.available_signals)

WrongCount(op) ==
    \/ op.operation \in BinaryOps /\ Len(op.signals) # 2
    \/ op.operation \in UnaryOps /\ Len(op.signals) # 1

GivenParameter(op, key, default) ==
    IF op.parameters.none THEN default ELSE Get(op.parameters.kv, key, default)

OrderOf(op) == GivenParameter(op, "order", IntVal(1))

OrderOutsideDomain(op) == ~(OrderOf(op).t = "int" /\ OrderOf(op).n \in {1, 2})

FilterTypeOutsideDomain(op) ==
    LET ft == GivenParameter(op, "filter_type", StrVal("lowpass"))
    IN  ~(ft.t = "str" /\ ft.s \in FilterTypes)

BadParameter(op) ==
    \/ op.operation = "derivative" /\ OrderOutsideDomain(op)
    \/ op.operation = "filter" /\ FilterTypeOutsideDomain(op)

\* the error the stated order of checks gives for one operation
ExpectedKind(op) ==
    IF UnknownName(op) THEN "UnknownOperation"
    ELSE IF MissingSignal(op) THEN "SignalNotFound"
    ELSE IF WrongCount(op) THEN "ArityMismatch"
    ELSE IF BadParameter(op) THEN "InvalidParameter"
    ELSE ""

InvalidAt == {i \in 1..Len(vin.operations) : ExpectedKind(vin.operations[i]) # ""}

FirstInvalid == IF InvalidAt = {} THEN 0 ELSE CHOOSE i \in InvalidAt : \A j \in InvalidAt : i <= j

\* C8: the validator checks each operation in the order name, signals,
\* signal count, parameter domain, and stops at the first failed check: the
\* error raised is the one of the earliest failed check of the first invalid
\* operation, and the operations after it are left as they were.
C8_ChecksInOrderFailFast ==
    Validated =>
        /\ vout.at = FirstInvalid
        /\ vout.err.kind = (IF FirstInvalid = 0 THEN ""
                            ELSE ExpectedKind(vin.operations[FirstInvalid]))
        /\ \A j \in 1..Len(vin.operations) :
              (FirstInvalid # 0 /\ j > FirstInvalid) => vout.ops[j] = vin.operations[j]

\* a valid operation followed by one that fails the signal check and the
\* count check, followed by nothing or an operation that is skipped
C8_Witness ==
    /\ Validated
    /\ vout.at = 2
    /\ MissingSignal(vin.operations[2])
    /\ WrongCount(vin.operations[2])
    /\ vout.err.kind = "SignalNotFound"

\* the validation reaches the parameter check of operation i
ReachesParameters(i) ==
    /\ \A j \in 1..(i - 1) : ExpectedKind(vin.operations[j]) = ""
    /\ ~UnknownName(vin.operations[i])
    /\ ~MissingSignal(vin.operations[i])
    /\ ~WrongCount(vin.operations[i])

\* the order argument of an executed derivative request
RequestedOrder == Get(cin.parameters, "order", IntVal(1))

\* C9: a derivative whose order is outside {1, 2} is rejected by the
\* validator with the invalid-parameter error, and the catalog returns no
\* result for a derivative request of such an order.
C9_DerivativeOrderRejected ==
    /\ Validated =>
          \A i \in 1..Len(vin.operations) :
              (/\ vin.operations[i].operation = "derivative"
               /\ OrderOutsideDomain(vin.operations[i])
               /\ ReachesParameters(i))
              => (vout.at = i /\ vout.err.kind = "InvalidParameter")
    /\ (/\ Executed
        /\ cin.operation_type = "derivative"
        /\ ~(RequestedOrder.t = "int" /\ RequestedOrder.n \in {1, 2}))
       => cout.raised # ""

\* the catalog has refused an order-3 derivative of a signal it holds
C9_Witness ==
    /\ Executed
    /\ cin.operation_type = "derivative"
    /\ RequestedOrder = IntVal(3)
    /\ Get(cin.parameters, "signal", NoneVal) = StrVal("engineRPM")
    /\ Len(cin.signals_data["engineRPM"]) >= 2
    /\ cout.raised = "ValueError"

\* a band filter whose cutoff is not a two-element list
BandWithoutPair(filter_type, cutoff_freq) ==
    /\ filter_type.t = "str"
    /\ filter_type.s \in {"bandpass", "bandstop"}
    /\ ~IsPair(cutoff_freq)

\* C10: a bandpass or bandstop filter whose cutoff is not a two-element list
\* is repaired to the cutoff [0.1, 0.4] and raises neither when it is
\* validated nor when it is executed.
C10_BandCutoffRepaired ==
    /\ Validated =>
          \A i \in 1..Len(vin.operations) :
              (/\ vin.operations[i].operation = "filter"
               /\ BandWithoutPair(GivenParameter(vin.operations[i], "filter_type", NoneVal),
                                  GivenParameter(vin.operations[i], "cutoff_freq", NoneVal))
               /\ ReachesParameters(i))
              => /\ vout.at # i
                 /\ Get(vout.ops[i].parameters.kv, "cutoff_freq", NoneVal) = DefaultBandCutoff
    /\ (/\ Executed
        /\ cin.operation_type = "filter"
        /\ BandWithoutPair(Get(cin.parameters, "filter_type", NoneVal),
                           Get(cin.parameters, "cutoff_freq", NoneVal))
        /\ Get(cin.parameters, "signal", NoneVal) = StrVal("engineRPM")
        /\ Len(cin.signals_data["engineRPM"]) > PadLen("bandpass", 4))
       => /\ cout.raised = ""
          /\ cout.parameters.cutoff_freq = DefaultBandCutoff

-----------------------------------------------------------------------------
(* Properties of the query processor                                       *)

Answered == ppc = "done"

\* the query uses the comparison vocabulary and not the cursor vocabulary,
\* which is looked for first
CompareQuery ==
    /\ _is_comparison_query(LowerText(QueryText(pin.query)))
    /\ ~_is_cursor_query(LowerText(QueryText(pin.query)))

\* C4: a comparison query with both cursors set gets a comparison answer and
\* no division error, whatever the values at the primary cursor, 0 included.
C4_PercentChangeGuarded ==
    (/\ Answered
     /\ Route(LowerText(QueryText(pin.query)), pin.context) = "comparison"
     /\ pin.data.data.time # <<>>)
    => (pout.raised = "" /\ pout.kind = "comparison")

\* C5: a compare query with the primary cursor set and the diff cursor absent
\* is answered with the both-cursors-needed message.
C5_BothCursorsMessage ==
    (/\ Answered
     /\ CompareQuery
     /\ pin.context.given
     /\ pin.context.primaryCursor.set
     /\ ~pin.context.diffCursor.set)
    => (pout.raised = "" /\ pout.kind = "both_cursors_needed")

-----------------------------------------------------------------------------
(* Required parameters, the frame of the validator                         *)

\* the parameter an operation cannot do without
RequiredParameter(operation) ==
    CASE operation = "scale" -> "factor"
      [] operation = "filter" -> "filter_type"
      [] operation = "fft" -> "sample_rate"
      [] OTHER -> ""

LacksRequiredParameter(op) ==
    /\ RequiredParameter(op.operation) # ""
    /\ GivenParameter(op, RequiredParameter(op.operation), NoneVal) = NoneVal

\* C11: the validator rejects with the invalid-parameter error every
\* operation that lacks a required parameter: scale without factor, filter
\* without filter_type, fft without sample_rate.
C11_RequiredParametersChecked ==
    Validated =>
        \A i \in 1..Len(vin.operations) :
            (LacksRequiredParameter(vin.operations[i]) /\ ReachesParameters(i))
            => (vout.at = i /\ vout.err.kind = "InvalidParameter")

-----------------------------------------------------------------------------
(* Operations returned with a clarification                                *)

\* the explanations that come with an operation and ask for what it lacks
ClarificationsWithOperation ==
    {"filter_need_type_and_cutoff", "binary_need_one_more", "unary_need_factor",
     "unary_need_order", "unary_need_sample_rate", "unary_need_more_info",
     "scale_need_factor"}

\* C12: every operation returned together with a clarification prompt is
\* partial: it does not pass validation, so it is not executable as returned.
C12_ClarifiedOperationIsPartial ==
    (/\ Done
     /\ result.raised = ""
     /\ result.value.explanation.kind \in ClarificationsWithOperation)
    => /\ result.value.operations # <<>>
       /\ NoExecutableOperation

-----------------------------------------------------------------------------
(* Fenced replies and replies with trailing prose                          *)

\* the positions of the reply content that hold a JSON object
ObjectsAt == {i \in 1..Len(behaviour.text) : behaviour.text[i].k = "obj"}

TheObject == behaviour.text[CHOOSE i \in ObjectsAt : TRUE].v

\* the content is one {operations, explanation} object inside a fenced
\* block, with or without prose around the block
ContentIsFenced ==
    /\ behaviour.kind = "content"
    /\ Cardinality(ObjectsAt) = 1
    /\ \E i \in ObjectsAt :
          /\ i > 1 /\ i < Len(behaviour.text)
          /\ behaviour.text[i - 1].k \in {"fence", "fence_json"}
          /\ behaviour.text[i + 1].k = "fence"
          /\ \A j \in 1..Len(behaviour.text) :
                j \notin {i - 1, i, i + 1} => behaviour.text[j].k = "prose"

\* the content is one {operations, explanation} object followed by prose
ContentHasTrailingProse ==
    /\ behaviour.kind = "content"
    /\ Len(behaviour.text) > 1
    /\ ObjectsAt = {1}
    /\ \A j \in 2..Len(behaviour.text) : behaviour.text[j].k = "prose"

\* the object of the content, built and validated on its own
RecordOfObject ==
    BuildAndValidate([ok |-> TRUE, is_dict |-> TRUE, v |-> TheObject], available)

\* C13: a valid {operations, explanation} object inside a fenced block, or
\* followed by prose, is what process_query returns, after validation; the
\* keyword fallback is not used.
C13_FencedOrTrailedRecordReturned ==
    (/\ Done
     /\ ContentIsFenced \/ ContentHasTrailingProse
     /\ TheObject.has_ops /\ TheObject.has_expl
     /\ RecordOfObject.ok)
    => /\ result.raised = ""
       /\ result.value = RecordOfObject.value
       /\ result.stage \in {"fenced", "salvage"}

\* an add of two signals, followed by prose, was salvaged and returned
C13_Witness ==
    /\ Done
    /\ ContentHasTrailingProse
    /\ result.stage = "salvage"
    /\ Len(result.value.operations) = 1
    /\ result.value.operations[1].operation = "add"
    /\ result.value.explanation.kind = "assistant"

-----------------------------------------------------------------------------
(* The generic help                                                        *)

\* neither an operation keyword nor an available signal is in the query
NothingIdentified ==
    /\ KeywordOperation(QueryText(query)) = ""
    /\ Mentioned(QueryText(query), available) = <<>>

\* C14: when neither an operation nor a signal is identified in the query
\* (and no record comes from the reply), the resolver returns no operation
\* and the generic help, which lists the operation categories and all the
\* available signals; this for every signal list, the short ones included.
C14_GenericHelp ==
    (Done /\ NothingIdentified /\ ~RecordExtracted)
    => /\ result.raised = ""
       /\ result.value.operations = <<>>
       /\ result.value.explanation.kind = "generic_help"
       /\ result.value.explanation.sigs = available

-----------------------------------------------------------------------------
(* What the validator changes                                              *)

\* the parameters of an operation as a mapping, None being the empty one
MappingOf(parameters) == IF parameters.none THEN EmptyDict ELSE parameters.kv

\* the only changes of the parameters: None becomes {}, and the cutoff of
\* a band filter that is not a two-element list becomes [0.1, 0.4]
OnlyDefaultsInjected(before, after) ==
    \/ after.parameters = before.parameters
    \/ before.parameters.none /\ after.parameters = DictParams(EmptyDict)
    \/ /\ before.operation = "filter"
       /\ BandWithoutPair(GivenParameter(before, "filter_type", NoneVal),
                          GivenParameter(before, "cutoff_freq", NoneVal))
       /\ after.parameters =
              DictParams(Put(MappingOf(before.parameters), "cutoff_freq", DefaultBandCutoff))

\* C15: the validator changes nothing in an operation except its
\* parameters, and these only to inject defaults: None becomes an empty
\* mapping, a band cutoff that is not a two-element list becomes [0.1, 0.4];
\* the operation name, the signals and the output name stay as they were.
C15_ValidatorFrame ==
    Validated =>
        /\ Len(vout.ops) = Len(vin.operations)
        /\ \A i \in 1..Len(vin.operations) :
              /\ vout.ops[i].operation = vin.operations[i].operation
              /\ vout.ops[i].signals = vin.operations[i].signals
              /\ vout.ops[i].output_name = vin.operations[i].output_name
              /\ OnlyDefaultsInjected(vin.operations[i], vout.ops[i])

\* two operations passed validation: the None parameters of one became {},
\* the one-element band cutoff of the other became [0.1, 0.4]
C15_Witness ==
    /\ Validated
    /\ vout.at = 0
    /\ \E i \in 1..Len(vin.operations) :
          /\ vin.operations[i].parameters.none
          /\ vout.ops[i].parameters = DictParams(EmptyDict)
    /\ \E i \in 1..Len(vin.operations) :
          /\ GivenParameter(vin.operations[i], "cutoff_freq", NoneVal) = ListVal(<<20>>)
          /\ GivenParameter(vout.ops[i], "cutoff_freq", NoneVal) = DefaultBandCutoff

-----------------------------------------------------------------------------
(* Binary operations of the catalog                                        *)

\* the catalog returned the result of a binary operation
BinaryResult == Executed /\ cin.operation_type \in BinaryOps /\ cout.raised = ""

FirstInput == cin.signals_data[cin.parameters.signal1.s]

SecondInput == cin.signals_data[cin.parameters.signal2.s]

\* C19: divide never produces NaN or Inf, even when the second signal has
\* zeros: no element of the result has a zero denominator, and every
\* denominator of magnitude below 1e-10 was replaced by 1e-10.
C19_DivideIsGuarded ==
    (BinaryResult /\ cin.operation_type = "divide")
    => \A i \in 1..Len(cout.data) :
          /\ cout.data[i].den # 0
          /\ SecondInput[i] = 0 => (cout.data[i].den = 1 /\ cout.data[i].unit = "1e-10")

\* a division by a signal that holds a zero returned a result
C19_Witness ==
    /\ BinaryResult
    /\ cin.operation_type = "divide"
    /\ Len(cout.data) = 2
    /\ SecondInput[2] = 0
    /\ FirstInput[2] # 0

\* the operation of the request on one pair of samples
Applied(a, b) ==
    CASE cin.operation_type = "add" -> a + b
      [] cin.operation_type = "subtract" -> a - b
      [] cin.operation_type = "multiply" -> a * b
      [] OTHER -> [num |-> a, den |-> IF b = 0 THEN 1 ELSE b,
                   unit |-> IF b = 0 THEN "1e-10" ELSE "1"]

\* C20: the result of a binary operation on two existing signals has the
\* length of the shorter signal, and its element i is the operation applied
\* to the elements i of the two signals.
C20_BinaryElementwise ==
    BinaryResult
    => /\ Len(cout.data) = (IF Len(FirstInput) < Len(SecondInput)
                            THEN Len(FirstInput) ELSE Len(SecondInput))
       /\ \A i \in 1..Len(cout.data) : cout.data[i] = Applied(FirstInput[i], SecondInput[i])
       /\ cout.operation = cin.operation_type
       /\ cout.inputs = <<cin.parameters.signal1.s, cin.parameters.signal2.s>>

\* a subtraction of a longer signal from a shorter one returned a result
C20_Witness ==
    /\ BinaryResult
    /\ cin.operation_type = "subtract"
    /\ Len(FirstInput) = 1
    /\ Len(SecondInput) = 2
    /\ cout.data = <<FirstInput[1] - SecondInput[1]>>
    /\ FirstInput[1] # SecondInput[1]

-----------------------------------------------------------------------------
(* The analysis handlers of the processor                                  *)

\* the branch of process_query the question took
AskedRoute == Route(LowerText(QueryText(pin.query)), pin.context)

\* the target signals of the question
TargetSignals ==
    IF pin.context.given /\ pin.context.selectedSignals # <<>>
    THEN pin.context.selectedSignals
    ELSE _extract_signals(LowerText(QueryText(pin.query)), pin.data)

\* the target signals the data holds
PresentSignals == SelectSeq(TargetSignals, LAMBDA s : s \in DOMAIN pin.data.data)

\* the metadata of the answer besides confidence and processingTime
MetadataOf(a) == IF "metadata" \in DOMAIN a THEN a.metadata ELSE EmptyDict

\* the signals an anomaly query checks
CheckedSignals ==
    IF TargetSignals # <<>> THEN PresentSignals
    ELSE SelectSeq(<<"engineRPM", "vehicleSpeed">>, LAMBDA s : s \in DOMAIN pin.data.data)

\* sample i of the list is more than 3 standard deviations from the mean
\* of the list: |x - S/n| > 3 * sqrt(Q/n - (S/n)^2)
IsOutlier(samples, i) ==
    LET n == Len(samples)
        S == SumOf(samples)
        Q == SumOfProducts(samples, samples)
    IN  (n * samples[i] - S) * (n * samples[i] - S) > 9 * (n * Q - S * S)

NoOutliers ==
    \A k \in 1..Len(CheckedSignals) :
        LET samples == pin.data.data[CheckedSignals[k]]
        IN  /\ samples # <<>>
            /\ \A i \in 1..Len(samples) : ~IsOutlier(samples, i)

\* C16: an anomaly query in which no sample of a checked signal is more than
\* 3 standard deviations from the mean of its signal is answered with the
\* 'no anomalies' text and confidence 0.7, and the metadata of the answer
\* carries an empty list of anomalies.
C16_NoAnomaliesAnswer ==
    (Answered /\ AskedRoute = "anomaly" /\ NoOutliers)
    => /\ pout.raised = ""
       /\ pout.kind = "no_anomalies"
       /\ pout.confidence = 70
       /\ "anomalies" \in DOMAIN MetadataOf(pout)
       /\ MetadataOf(pout).anomalies = <<>>

\* the first two target signals of a correlation query, when the data holds
\* both with the same number of samples
Correlated ==
    /\ Answered
    /\ AskedRoute = "correlation"
    /\ Len(TargetSignals) >= 2
    /\ TargetSignals[1] \in DOMAIN pin.data.data
    /\ TargetSignals[2] \in DOMAIN pin.data.data
    /\ Len(pin.data.data[TargetSignals[1]]) = Len(pin.data.data[TargetSignals[2]])

Bands ==
    {"strong positive", "moderate positive", "weak positive", "negligible",
     "weak negative", "moderate negative", "strong negative"}

\* r >= 0.8 and r <= -0.8 for the coefficient r = num / sqrt(square)
AtLeastFourFifths(r) ==
    r.square # 0 /\ r.num > 0 /\ 100 * r.num * r.num >= 64 * r.square
AtMostMinusFourFifths(r) ==
    r.square # 0 /\ r.num < 0 /\ 100 * r.num * r.num >= 64 * r.square

\* C17: a correlation query with at least two target signals names one of
\* the seven strength bands for the coefficient r of the first two:
\* 'strong positive' when r >= 0.8, 'strong negative' when r <= -0.8, and
\* 'strong positive' when the two signals are identical.
C17_CorrelationBands ==
    Correlated
    => LET first == pin.data.data[TargetSignals[1]]
           second == pin.data.data[TargetSignals[2]]
           r == [num |-> Covariation(first, second),
                 square |-> Covariation(first, first) * Covariation(second, second)]
       IN  /\ pout.raised = ""
           /\ Len(pout.values) = 1
           /\ pout.values[1].strength \in Bands
           /\ AtLeastFourFifths(r) => pout.values[1].strength = "strong positive"
           /\ AtMostMinusFourFifths(r) => pout.values[1].strength = "strong negative"
           /\ first = second => pout.values[1].strength = "strong positive"

\* a max, min or avg query without context whose targets are one signal
\* that the data holds with samples
OneSignalStatistic ==
    /\ Answered
    /\ AskedRoute \in {"max", "min", "avg"}
    /\ ~pin.context.given
    /\ Len(TargetSignals) = 1
    /\ Len(PresentSignals) = 1
    /\ pin.data.data[PresentSignals[1]] # <<>>

\* value is the maximum, minimum or mean of the samples
TrueStatistic(route, samples, value) ==
    CASE route = "max" ->
           /\ value.den = 1
           /\ \E i \in 1..Len(samples) : samples[i] = value.num
           /\ \A i \in 1..Len(samples) : samples[i] <= value.num
      [] route = "min" ->
           /\ value.den = 1
           /\ \E i \in 1..Len(samples) : samples[i] = value.num
           /\ \A i \in 1..Len(samples) : samples[i] >= value.num
      [] OTHER ->
           /\ value.den > 0
           /\ value.num * Len(samples) = SumOf(samples) * value.den

\* a max, min or avg query answered with the values of several signals
SeveralReported ==
    /\ Answered
    /\ AskedRoute \in {"max", "min", "avg"}
    /\ pout.raised = ""
    /\ "values" \in DOMAIN MetadataOf(pout)

\* C18: a max, min or avg query without context or time expression whose
\* targets resolve to exactly one signal of the data is answered with the
\* true maximum, minimum or mean of that signal and confidence 0.95; an
\* answer that reports several signals has confidence 0.9.
C18_StatisticConfidence ==
    /\ OneSignalStatistic
       => /\ pout.raised = ""
          /\ pout.kind = AskedRoute
          /\ pout.confidence = 95
          /\ DOMAIN MetadataOf(pout) = {"value"}
          /\ TrueStatistic(AskedRoute, pin.data.data[PresentSignals[1]],
                           MetadataOf(pout).value)
    /\ SeveralReported => pout.confidence = 90

\* the mean of one signal, which is not a whole number, was reported
C18_Witness ==
    /\ OneSignalStatistic
    /\ AskedRoute = "avg"
    /\ pin.data.data[PresentSignals[1]] = <<0, 3>>
    /\ pout.confidence = 95
    /\ pout.metadata.value = [num |-> 3, den |-> 2]

\* the maxima of two signals were reported
C18_WitnessSeveral ==
    /\ SeveralReported
    /\ AskedRoute = "max"
    /\ TargetSignals = <<"engineRPM", "vehicleSpeed">>
    /\ pout.metadata["values"] = [engineRPM |-> [num |-> 3, den |-> 1],
                                  vehicleSpeed |-> [num |-> 1, den |-> 1]]

-----------------------------------------------------------------------------
(* Derivatives of the catalog                                              *)

\* a derivative of the given order of an existing signal returned a result
DerivativeResult(order) ==
    /\ Executed
    /\ cin.operation_type = "derivative"
    /\ cout.raised = ""
    /\ Get(cin.parameters, "order", IntVal(1)) = IntVal(order)

\* the first derivative of the signal of the request
FirstDerivative ==
    compute_derivative(cin.signals_data, [signal |-> cin.parameters.signal, order |-> IntVal(1)])

\* the first derivative of the first derivative
DerivativeOfDerivative ==
    compute_derivative([engineRPM |-> FirstDerivative.data],
                       [signal |-> StrVal("engineRPM"), order |-> IntVal(1)])

\* C21: the derivative of order 2 of a signal equals, sample for sample, the
\* derivative of order 1 of its derivative of order 1. The samples of the
\* latter are counted in sixteenths, those of the former in quarters.
C21_SecondDerivativeIsIterated ==
    DerivativeResult(2)
    => /\ FirstDerivative.raised = ""
       /\ DerivativeOfDerivative.raised = ""
       /\ Len(DerivativeOfDerivative.data) = Len(cout.data)
       /\ \A i \in 1..Len(cout.data) :
             DerivativeOfDerivative.data[i] * cout.scale
                = cout.data[i] * FirstDerivative.scale * DerivativeOfDerivative.scale

\* the second derivative of a signal with inner samples that is not linear
C21_Witness ==
    /\ DerivativeResult(2)
    /\ cin.signals_data.engineRPM = <<0, 1, 3, 0>>
    /\ cout.data = <<2, -3, -9, -10>>

-----------------------------------------------------------------------------
(* Statistics of the catalog                                               *)

\* the statistics of an existing signal that has samples were requested
StatisticsRequested ==
    /\ Executed
    /\ cin.operation_type = "stats"
    /\ DOMAIN cin.parameters = {"signal"}
    /\ SignalGiven(cin.signals_data, cin.parameters.signal)
    /\ cin.signals_data[cin.parameters.signal.s] # <<>>

\* C22: the statistics of a signal that has samples report as max a sample
\* that no sample exceeds and as min a sample that exceeds no sample, and
\* the data of the result is the signal as it was given.
C22_StatisticsOfSignal ==
    StatisticsRequested
    => LET x == cin.signals_data[cin.parameters.signal.s]
       IN  /\ cout.raised = ""
           /\ \E i \in 1..Len(x) : x[i] = cout.statistics.max
           /\ \A i \in 1..Len(x) : x[i] <= cout.statistics.max
           /\ \E i \in 1..Len(x) : x[i] = cout.statistics.min
           /\ \A i \in 1..Len(x) : x[i] >= cout.statistics.min
           /\ cout.data = x

\* the statistics of a signal whose largest sample is an inner one
C22_Witness ==
    /\ StatisticsRequested
    /\ cout.data = <<0, 1, 3, 0>>
    /\ cout.statistics.max = 3
    /\ cout.statistics.min = 0
    /\ cout.statistics.median = [num |-> 1, den |-> 2]

-----------------------------------------------------------------------------
(* The stages of the processor                                             *)

\* the lower-cased text of the question
AskedText == LowerText(QueryText(pin.query))

\* the messages of the cursor handler, of the comparison handler and of the
\* handler of timestamps
CursorAnswers ==
    {"no_cursor_active", "no_time_data_cursor", "at_primary_cursor", "at_diff_cursor"}
ComparisonAnswers == {"both_cursors_needed", "no_time_data_comparison", "comparison"}
TimeAnswers ==
    {"no_time_data", "no_close_time", "no_signal_data_at_time", "values_at_time",
     "value_at_time", "no_data_for_signal"}

\* the stage that produced the answer
AnsweredBy ==
    IF pout.kind \in CursorAnswers \cup ComparisonAnswers THEN "context"
    ELSE IF pout.kind \in TimeAnswers THEN "timestamp"
    ELSE "keyword"

\* a context is supplied, the query has cursor or comparison vocabulary and
\* the cursors that vocabulary needs are in the context
ContextPattern ==
    /\ pin.context.given
    /\ \/ /\ _is_cursor_query(AskedText)
          /\ (pin.context.primaryCursor.set \/ pin.context.diffCursor.set)
       \/ /\ _is_comparison_query(AskedText)
          /\ pin.context.primaryCursor.set /\ pin.context.diffCursor.set

\* C23: the context-pattern stage answers a query only when a context is
\* supplied, the query has cursor or comparison vocabulary and the cursors
\* it needs are present (one for a cursor query, both for a comparison);
\* otherwise the timestamp stage answers a query that names a time and the
\* keyword classification every other query.
C23_StagesInOrder ==
    (Answered /\ pout.raised = "")
    => /\ AnsweredBy = "context" <=> ContextPattern
       /\ ~ContextPattern => (AnsweredBy = "timestamp" <=> TimeMatches(AskedText))

\* the index _process_time_query looks the samples up at
TimeIndex ==
    LET match == time_match(AskedText)
        target == IF match.unit \in {"", "ms", "milliseconds"}
                  THEN match.value ELSE 1000 * match.value
    IN  _find_closest_time_index(
            [k \in 1..Len(pin.data.data.time) |-> 1000 * pin.data.data.time[k]], target)

\* the signals of the data the query names
NamedInQuery == MatchVariations(AskedText, DataKeys(pin.data), 1, 1, <<>>)

\* the signals that have a sample at the index, with that sample
SamplesAt(names, idx) ==
    {[signal |-> s, value |-> pin.data.data[s][idx + 1]] :
        s \in {n \in names : n \in DOMAIN pin.data.data /\ idx < Len(pin.data.data[n])}}

\* the entries of the answer
Reported == {pout.values[i] : i \in 1..Len(pout.values)}

\* C24: the answer to a timestamp query carries the values of the sample at
\* the nearest time index: of the one named signal when the query names a
\* signal, of every signal but time when the query names none.
C24_TimeQueryValues ==
    (/\ Answered
     /\ AskedRoute = "time"
     /\ pin.data.data.time # <<>>
     /\ Len(NamedInQuery) <= 1)
    => /\ pout.raised = ""
       /\ Reported = SamplesAt(IF NamedInQuery = <<>>
                               THEN DOMAIN pin.data.data \ {"time"}
                               ELSE {NamedInQuery[1]},
                               TimeIndex)

\* C25: the answer to a cursor query with a cursor set reports the value at
\* the nearest time index of every signal the context selects, or of every
\* signal but time of the data mapping when the context selects none.
C25_CursorQueryValues ==
    (/\ Answered
     /\ AskedRoute = "at_cursor"
     /\ (pin.context.primaryCursor.set \/ pin.context.diffCursor.set)
     /\ pin.data.data.time # <<>>)
    => LET cursor == IF pin.context.primaryCursor.set
                     THEN pin.context.primaryCursor ELSE pin.context.diffCursor
           idx == _find_closest_time_index(pin.data.data.time, cursor.x)
       IN  /\ pout.raised = ""
           /\ Reported = SamplesAt(IF pin.context.selectedSignals # <<>>
                                   THEN {pin.context.selectedSignals[i] :
                                            i \in 1..Len(pin.context.selectedSignals)}
                                   ELSE DOMAIN pin.data.data \ {"time"},
                                   idx)

\* the distance of the time at index i (from 0) to the target
Distance(time_array, i, target) ==
    IF time_array[i + 1] >= target THEN time_array[i + 1] - target
    ELSE target - time_array[i + 1]

\* idx is the smallest index that minimises the distance to the target, and
\* -1 exactly for an empty time axis
IsNearest(time_array, target, idx) ==
    IF time_array = <<>> THEN idx = -1
    ELSE /\ idx \in 0..(Len(time_array) - 1)
         /\ \A j \in 0..(Len(time_array) - 1) :
               Distance(time_array, idx, target) <= Distance(time_array, j, target)
         /\ \A j \in 0..(idx - 1) :
               Distance(time_array, j, target) > Distance(time_array, idx, target)

Categories ==
    <<"max", "min", "avg", "correlation", "anomaly", "summary", "cursor", "compare">>

\* C27: the classifier returns the first category, in the order max, min,
\* avg, correlation, anomaly, summary, cursor, compare, that has a keyword
\* in the query, and 'unknown' when none has; a query classified cursor,
\* compare or unknown that no earlier stage answered gets the guidance
\* message with confidence 0.3.
C27_Classifier ==
    Answered
    => LET text == AskedText
           query_type == _determine_query_type(text)
           \* the categories that have a keyword in the question
           hits == {i \in 1..Len(Categories) :
                      \E k \in 1..Len(keywords(Categories[i])) :
                         Contains(text, keywords(Categories[i])[k])}
       IN  /\ hits # {}
                 => \E i \in hits : /\ \A j \in hits : i <= j
                                    /\ query_type = Categories[i]
           /\ hits = {} => query_type = "unknown"
           /\ (AskedRoute \in {"cursor", "compare", "unknown"} /\ AnsweredBy = "keyword")
                 => (pout.raised = "" /\ pout.kind = "not_sure" /\ pout.confidence = 30)

\* a query with a keyword of min before a keyword of max is classified max
C27_Witness ==
    /\ Answered
    /\ pin.query = <<"minimum", "maximum">>
    /\ pout.raised = ""
    /\ pout.kind = "max"

\* a query with cursor and comparison vocabulary got the guidance message
C27_WitnessGuidance ==
    /\ Answered
    /\ pin.query = <<"compare", "cursor">>
    /\ ~pin.context.given
    /\ pout.kind = "not_sure"

\* C28: with a context, every query with a cursor keyword is answered by the
\* handler of single cursors, also when it has comparison keywords and both
\* cursors are set; the comparison handler answers only queries without a
\* cursor keyword.
C28_CursorVocabularyFirst ==
    Answered
    => /\ (pin.context.given /\ _is_cursor_query(AskedText))
          => (pout.raised = "" /\ pout.kind \in CursorAnswers)
       /\ pout.kind \in ComparisonAnswers => ~_is_cursor_query(AskedText)

\* a query with both vocabularies, both cursors set, answered at the primary
\* cursor
C28_Witness ==
    /\ Answered
    /\ _is_cursor_query(AskedText)
    /\ _is_comparison_query(AskedText)
    /\ pin.context.given
    /\ pin.context.primaryCursor.set
    /\ pin.context.diffCursor.set
    /\ pout.kind = "at_primary_cursor"

-----------------------------------------------------------------------------
(* The signals of the returned operations                                  *)

ReturnedOperations == result.value.operations

\* the result came from a clarification handler or from the keyword fallback
ClarifiedOrFallback == result.stage \in {"fallback", "value_error", "exception"}

\* C29: every operation of every result that process_query returns names
\* only signals of the available-signals list, whichever path produced the
\* result, and a result of a clarification handler or of the keyword
\* fallback holds at most one operation.
C29_OperationsNameAvailableSignals ==
    (Done /\ result.raised = "")
        => /\ \A i \in 1..Len(ReturnedOperations) :
                  Range(ReturnedOperations[i].signals) \subseteq Range(available)
           /\ ClarifiedOrFallback => Len(ReturnedOperations) <= 1

\* C29 witness: the reply holds an operation on a signal that is not
\* available, the query names an available one, and the answer is the one
\* partial operation of the fallback on the signal of the query
C29_Witness ==
    /\ Done
    /\ behaviour = Behaviour("content", <<Obj(JsonObject(TRUE, <<OpAbsGhost>>, TRUE, "E"))>>)
    /\ query = <<"derivative", "vehicleSpeed">>
    /\ available = <<"engineRPM", "vehicleSpeed">>
    /\ ClarifiedOrFallback
    /\ Len(ReturnedOperations) = 1
    /\ ReturnedOperations[1].signals = <<"vehicleSpeed">>

\* C29 witness of the extraction path: a validated record of the reply with
\* an operation on both available signals
C29_WitnessExtracted ==
    /\ Done
    /\ RecordExtracted
    /\ Len(ReturnedOperations) = 1
    /\ ReturnedOperations[1].signals = <<"engineRPM", "vehicleSpeed">>

-----------------------------------------------------------------------------
(* The fallback on a binary keyword                                        *)

\* no record was extracted from the reply: the keyword fallback answered
NoParsedRecord == result.stage = "fallback"

FirstKeywordIsBinary == KeywordOperation(QueryText(query)) \in BinaryOps

AsksWhichTwoSignals == result.value.explanation.kind = "binary_need_two"

\* C30: when no record is extracted and the first matching keyword of the
\* query is one of a binary operation, the fallback returns one partial
\* operation exactly when one available signal is named in the query;
\* with no signal or with two or more named it returns no operation and
\* asks which two signals to use.
C30_BinaryFallbackByNamedSignals ==
    (Done /\ NoParsedRecord /\ FirstKeywordIsBinary)
        => /\ result.raised = ""
           /\ Len(ReturnedOperations) = 1 <=> Cardinality(NamedSignals) = 1
           /\ Cardinality(NamedSignals) = 1
                 => /\ Range(ReturnedOperations[1].signals) = NamedSignals
                    /\ NoExecutableOperation
           /\ Cardinality(NamedSignals) # 1
                 => /\ ReturnedOperations = <<>>
                    /\ AsksWhichTwoSignals

\* C30 witness: the query names both operands, nothing is extracted from
\* the reply, and the fallback asks which two signals to use
C30_Witness ==
    /\ Done
    /\ NoParsedRecord
    /\ query = <<"add", "engineRPM", "vehicleSpeed">>
    /\ available = <<"engineRPM", "vehicleSpeed">>
    /\ ReturnedOperations = <<>>
    /\ AsksWhichTwoSignals

\* C30 witness of the other side: one operand named, one partial operation
C30_WitnessOneSignal ==
    /\ Done
    /\ NoParsedRecord
    /\ query = <<"add", "vehicleSpeed">>
    /\ available = <<"engineRPM", "vehicleSpeed">>
    /\ behaviour = Behaviour("content", <<Prose>>)
    /\ Len(ReturnedOperations) = 1
    /\ ReturnedOperations[1].signals = <<"vehicleSpeed">>

====
